---- MODULE Spec2Model ----
(***************************************************************************)
(* Model of the trading bot's cycle pipeline: the risk gate                *)
(* (agents/risk_manager.py), the DCA state machine of the strategy agent   *)
(* (agents/strategy.py), the order executor (agents/executor.py) and the   *)
(* scheduler's trading cycle (scheduler.py).                               *)
(*                                                                         *)
(* Units.  Prices are whole USDT (the modelled instrument has price tick   *)
(* 1), except in the executor, where PriceScale gives the price unit of an *)
(* instrument.  Quantities are in thousandths of a unit (quantity step 0.001).     *)
(* Money (balances, P&L, cost, exposure) is in thousandths of a USDT, so   *)
(* price * quantity is directly a money value.  An average entry price is  *)
(* kept in hundredths of a USDT.  Fractions of the settings are percents.  *)
(***************************************************************************)
EXTENDS Integers, Sequences, FiniteSets, Bags, TLC

VARIABLES
    \* ---- persisted state (SQLite) ----
    trades,             \* table trades: bag of rows [pair, side, price, amount, status]
    dca_state,          \* table dca_state: sequence of rows, index = id
    daily_reset_state,  \* table daily_reset_state: NoRow or the single row
    \* ---- RiskManager instance ----
    current_balance,    \* RiskManager.current_balance
    now,                \* local wall clock, in hours
    rm_pc,              \* "none" | "ready" | "validated"
    rm_call,            \* observation of the last validate_signals call
    \* ---- StrategyAgent ----
    gs_call,            \* observation of the last generate_signals call
    \* ---- ExecutionAgent ----
    sr_call,            \* observation of the last selective_refresh call
    \* ---- functions checked on their own ----
    fn_call,            \* observation of the last call of such a function
    \* ---- scheduler module globals ----
    kill_switch_active, \* scheduler.kill_switch_active
    last_grid_center,   \* scheduler.last_grid_center: pair -> price, 0 when absent
    last_regime,        \* scheduler.last_regime: pair -> regime, "none" when absent
    \* ---- exchange ----
    open_orders,        \* resting limit orders, oldest first: [pair, side, price, amount, type, raw_type]
    algo_stops,         \* conditional stop orders: pair -> trigger price, 0 when none
    schedulers,         \* scheduler processes inside a strategy call: position, snapshot
    \* ---- run_trading_cycle ----
    sched_pc,           \* "idle" | "loop" (inside the for loop over the pairs)
    pending,            \* the pairs the for loop has still to process
    cycles,             \* number of run_trading_cycle invocations so far
    drawdown_seen,      \* an earlier cycle ran with the drawdown at the threshold
    sched_step          \* observation of the last step of the cycle

riskVars == <<trades, daily_reset_state, current_balance, now, rm_pc, rm_call>>
schedVars == <<kill_switch_active, last_grid_center, last_regime, open_orders,
               algo_stops, schedulers, sched_pc, pending, cycles, drawdown_seen, sched_step>>
vars == <<trades, dca_state, daily_reset_state, current_balance, now, rm_pc, rm_call,
         gs_call, sr_call, fn_call, kill_switch_active, last_grid_center, last_regime, open_orders,
         algo_stops, schedulers, sched_pc, pending, cycles, drawdown_seen, sched_step>>

-----------------------------------------------------------------------------
(* Settings (config/settings.py, config/grid_config.py)                    *)

MoneyScale == 1000
TOTAL_CAPITAL == 900
DCA_RESERVE == 225
LEVERAGE == 10
MAX_POSITION_PCT == 80
MAX_OPEN_ORDERS == 36
DAILY_LOSS_LIMIT_PCT == 5
KILL_SWITCH_DRAWDOWN == 10

PAIRS == {"BTC/USDT:USDT", "ETH/USDT:USDT"}

\* grid_spacing_pct is in 1/10000 (0.008 = 80).
GRID_PARAMS ==
    [p \in PAIRS |-> [num_grids |-> 6, grid_spacing_pct |-> 80,
                      order_size_usdt |-> IF p = "BTC/USDT:USDT" THEN 25 ELSE 20]]

\* Percents.
DCA_PARAMS ==
    [entry_pct |-> 5, additional_drop_pct |-> 3, max_entries_per_dip |-> 3,
     take_profit_pct |-> 1]

\* In 1/1000000 (0.0005 = 500).
EXTREME_FUNDING == 500

\* Regime thresholds: ADX points, a percent, RSI points.
ADX_TRENDING_THRESHOLD == 25
CRASH_DROP_PCT == 5
CRASH_RSI_THRESHOLD == 30

NoRow == [none |-> TRUE]

-----------------------------------------------------------------------------
(* Bounds of the model                                                     *)

MaxBatch == 3
MaxTime == 30
MaxRows == 2
MaxCycles == 3
\* Resting limit orders before a selective_refresh call.
MaxResting == 2
\* Grid signals proposed to a selective_refresh call.
MaxSignals == 2
\* Signals in a batch given to execute_orders.
MaxPlace == 2
\* Days after the first over which RiskManagers are constructed.
MaxDays == 2
\* Strategy calls of each of two scheduler processes.
MaxCalls == 2

-----------------------------------------------------------------------------
(* RiskManager                                                             *)

starting_capital == TOTAL_CAPITAL * MoneyScale

Max(a, b) == IF a >= b THEN a ELSE b
Min(a, b) == IF a <= b THEN a ELSE b
Abs(x) == IF x >= 0 THEN x ELSE -x

\* Sum of f[x] over the elements x of the finite set S.
RECURSIVE SumOver(_, _)
SumOver(f, S) ==
    IF S = {} THEN 0
    ELSE LET x == CHOOSE y \in S : TRUE
         IN  f[x] + SumOver(f, S \ {x})

\* SELECT COUNT(*) FROM trades WHERE status IN ('PENDING','OPEN'); 0 on error.
_get_open_order_count(db_ok) ==
    IF ~db_ok THEN 0
    ELSE SumOver([r \in BagToSet(trades) |->
                    IF r.status \in {"PENDING", "OPEN"}
                    THEN CopiesIn(r, trades) ELSE 0],
                 BagToSet(trades))

\* SELECT SUM(price*amount) of the pair's BUY rows that are PENDING, OPEN or
\* PARTIALLY_FILLED; 0 on error.
_get_pair_exposure(pair, db_ok) ==
    IF ~db_ok THEN 0
    ELSE SumOver([r \in BagToSet(trades) |->
                    IF /\ r.pair = pair
                       /\ r.side = "BUY"
                       /\ r.status \in {"PENDING", "OPEN", "PARTIALLY_FILLED"}
                    THEN r.price * r.amount * CopiesIn(r, trades) ELSE 0],
                 BagToSet(trades))

\* Mutation: strict comparison, the boundary drawdown does not trip.
check_kill_switch_strict(balance) ==
    (starting_capital - balance) * 100 > KILL_SWITCH_DRAWDOWN * starting_capital

\* drawdown = (starting_capital - current_balance) / starting_capital
\* return drawdown >= KILL_SWITCH_DRAWDOWN
check_kill_switch(balance) ==
    (starting_capital - balance) * 100 >= KILL_SWITCH_DRAWDOWN * starting_capital

\* Balance at the last daily reset: the row's value, the current balance when
\* there is no row, the starting capital when the query fails.
_get_daily_start_balance(db_ok) ==
    IF ~db_ok THEN starting_capital
    ELSE IF daily_reset_state = NoRow THEN current_balance
    ELSE daily_reset_state.daily_start_balance

\* income = [ok |-> BOOLEAN, sum |-> Int]: the outcome of the exchange's income
\* query (realized P&L records since the last reset); ok is FALSE when no
\* exchange is attached or the query raises.  The income sum is used only when
\* the reset row can be read; otherwise the balance delta is used.
_get_daily_realized_pnl(income, db_ok) ==
    IF income.ok /\ db_ok /\ daily_reset_state # NoRow
    THEN income.sum
    ELSE -(_get_daily_start_balance(db_ok) - current_balance)

\* Mutation: strict comparison, a loss equal to the limit does not block.
DailyLossLimitHit_strict(daily_pnl) ==
    daily_pnl * 100 < -(starting_capital * DAILY_LOSS_LIMIT_PCT)

\* daily_pnl <= -(starting_capital * DAILY_LOSS_LIMIT_PCT)
DailyLossLimitHit(daily_pnl) ==
    daily_pnl * 100 <= -(starting_capital * DAILY_LOSS_LIMIT_PCT)

\* Mutation: the cap is tested with > instead of >=.
MaxOpenOrdersReached_off(open_order_count, approved) ==
    open_order_count + Len(approved) > MAX_OPEN_ORDERS

\* open_order_count + len(approved) >= MAX_OPEN_ORDERS
MaxOpenOrdersReached(open_order_count, approved) ==
    open_order_count + Len(approved) >= MAX_OPEN_ORDERS

\* signal.side == BUY and pair_margin + signal_margin > max_margin, where
\* signal_margin = price*amount/LEVERAGE, pair_margin = exposure/LEVERAGE and
\* max_margin = starting_capital * MAX_POSITION_PCT (all scaled by LEVERAGE).
PositionLimitExceeded(signal, pair_exposure) ==
    /\ signal.side = "BUY"
    /\ pair_exposure + signal.price * signal.amount
        > (starting_capital * MAX_POSITION_PCT * LEVERAGE) \div 100

\* Mutation: a signal rejected by the margin cap ends the loop (break).
RECURSIVE ValidateLoop_breakOnLimit(_, _, _, _, _)
ValidateLoop_breakOnLimit(signals, i, approved, open_order_count, db_ok) ==
    IF i > Len(signals) THEN approved
    ELSE IF MaxOpenOrdersReached(open_order_count, approved) THEN approved
    ELSE IF PositionLimitExceeded(signals[i], _get_pair_exposure(signals[i].pair, db_ok))
         THEN approved
    ELSE ValidateLoop_breakOnLimit(signals, i + 1, Append(approved, signals[i]),
                                   open_order_count, db_ok)

\* The for loop of validate_signals: break at the order cap, continue past a
\* BUY over the margin cap, append otherwise.
RECURSIVE ValidateLoop(_, _, _, _, _)
ValidateLoop(signals, i, approved, open_order_count, db_ok) ==
    IF i > Len(signals) THEN approved
    ELSE IF MaxOpenOrdersReached(open_order_count, approved) THEN approved
    ELSE IF PositionLimitExceeded(signals[i], _get_pair_exposure(signals[i].pair, db_ok))
         THEN ValidateLoop(signals, i + 1, approved, open_order_count, db_ok)
    ELSE ValidateLoop(signals, i + 1, Append(approved, signals[i]),
                      open_order_count, db_ok)

\* validate_signals: kill switch, daily loss limit, then the loop.
validate_signals(signals, income, db_ok) ==
    IF check_kill_switch(current_balance) THEN <<>>
    ELSE IF DailyLossLimitHit(_get_daily_realized_pnl(income, db_ok))
         THEN <<>>
    ELSE ValidateLoop(signals, 1, <<>>, _get_open_order_count(db_ok), db_ok)

\* 07:00 of the day that contains hour t.
reset_time_today(t) == (t \div 24) * 24 + 7

\* _check_and_reset_daily_balance: insert the row when there is none, overwrite
\* it when 07:00 of today has passed and the last reset was before it; nothing
\* on a database error.
_check_and_reset_daily_balance(row, balance, t, db_ok) ==
    IF ~db_ok THEN row
    ELSE IF row = NoRow
         THEN [daily_start_balance |-> balance, last_reset_time |-> t]
    ELSE IF t >= reset_time_today(t) /\ row.last_reset_time < reset_time_today(t)
         THEN [daily_start_balance |-> balance, last_reset_time |-> t]
    ELSE row

-----------------------------------------------------------------------------
(* The risk gate on its own: constructions of a RiskManager and calls of   *)
(* validate_signals on bounded inputs.                                     *)

Signal(pair, side, price, amount, signal_type) ==
    [pair |-> pair, side |-> side, price |-> price, amount |-> amount,
     signal_type |-> signal_type]

TradeRow(pair, side, price, amount, status) ==
    [pair |-> pair, side |-> side, price |-> price, amount |-> amount,
     status |-> status]

BagOf(row, k) == IF k = 0 THEN EmptyBag ELSE [x \in {row} |-> k]

\* Signals offered to the gate: margin 10, margin 25 and a SELL, on one
\* instrument, and a margin-25 BUY on another.
RiskSignals ==
    { Signal("BTC/USDT:USDT", "BUY", 50000, 2, "GRID_BUY"),
      Signal("BTC/USDT:USDT", "BUY", 50000, 5, "GRID_BUY"),
      Signal("BTC/USDT:USDT", "SELL", 51000, 5, "GRID_SELL"),
      Signal("ETH/USDT:USDT", "BUY", 50000, 5, "GRID_BUY") }

RiskBatches == UNION { [1..n -> RiskSignals] : n \in 0..MaxBatch }

\* Persisted trades at the start: k open BUY orders of margin 10 each and,
\* possibly, one partially filled BUY of margin 700 on the same instrument.
RiskTrades ==
    { BagOf(TradeRow("BTC/USDT:USDT", "BUY", 50000, 2, "OPEN"), k)
        (+) BagOf(TradeRow("BTC/USDT:USDT", "BUY", 50000, 140, "PARTIALLY_FILLED"), j)
      : k \in {0, MAX_OPEN_ORDERS - 2, MAX_OPEN_ORDERS + 1},
        j \in {0, 1} }

Balances == {810000, 810001, 855000, 900000}

Incomes == { [ok |-> FALSE, sum |-> 0] }
           \cup { [ok |-> TRUE, sum |-> x] : x \in {-45000, -44999} }

Times == { h \in 0..MaxTime : h % 24 \in {6, 7} }

NoCall == [valid |-> FALSE]

\* No scheduler process is inside a strategy call.
NoSchedulers == <<>>

\* The scheduler module as imported: flag down, both dictionaries empty; no
\* order on the exchange, no cycle run.
SchedulerLoaded ==
    /\ kill_switch_active = FALSE
    /\ last_grid_center = [p \in PAIRS |-> 0]
    /\ last_regime = [p \in PAIRS |-> "none"]
    /\ open_orders = <<>>
    /\ algo_stops = [p \in PAIRS |-> 0]
    /\ schedulers = NoSchedulers
    /\ sched_pc = "idle"
    /\ pending = <<>>
    /\ cycles = 0
    /\ drawdown_seen = FALSE
    /\ sched_step = [valid |-> FALSE, kind |-> "none"]

InitRisk ==
    /\ trades \in RiskTrades
    /\ dca_state = <<>>
    /\ daily_reset_state = NoRow
    /\ current_balance = starting_capital
    /\ now = 0
    /\ rm_pc = "none"
    /\ rm_call = NoCall
    /\ gs_call = NoCall
    /\ sr_call = NoCall
    /\ fn_call = NoCall
    /\ SchedulerLoaded

\* RiskManager.__init__: take the balance, run the daily reset check.
RM_Construct(balance, t, db_ok) ==
    /\ t >= now
    /\ now' = t
    /\ current_balance' = balance
    /\ daily_reset_state' = _check_and_reset_daily_balance(daily_reset_state, balance, t, db_ok)
    /\ rm_pc' = "ready"
    /\ rm_call' = NoCall
    /\ UNCHANGED <<trades, dca_state, gs_call, sr_call, fn_call>>
    /\ UNCHANGED schedVars

\* One call of validate_signals; the call's inputs and results are recorded.
RM_Validate(signals, income, db_ok) ==
    /\ rm_pc = "ready"
    /\ rm_pc' = "validated"
    /\ rm_call' = [valid |-> TRUE,
                   signals |-> signals,
                   approved |-> validate_signals(signals, income, db_ok),
                   kill |-> check_kill_switch(current_balance),
                   daily_pnl |-> _get_daily_realized_pnl(income, db_ok),
                   from_income |-> (income.ok /\ db_ok /\ daily_reset_state # NoRow),
                   open_order_count |-> _get_open_order_count(db_ok),
                   db_ok |-> db_ok]
    /\ UNCHANGED <<trades, dca_state, daily_reset_state, current_balance, now, gs_call,
                   sr_call, fn_call>>
    /\ UNCHANGED schedVars

\* A pass of validate_signals leaves the tables, the balance and the clock as
\* they were, so what can follow it is what can follow the construction
\* before it: a behaviour is followed up to its first pass.
NextRisk ==
    \/ /\ rm_pc # "validated"
       /\ \E balance \in Balances, t \in Times, db_ok \in BOOLEAN :
             RM_Construct(balance, t, db_ok)
    \/ \E signals \in RiskBatches, income \in Incomes, db_ok \in BOOLEAN :
          RM_Validate(signals, income, db_ok)

SpecRisk == InitRisk /\ [][NextRisk]_vars


-----------------------------------------------------------------------------
(* StrategyAgent: DCA state machine and signal generation                  *)

NoPosition == [none |-> TRUE]

\* exchange.price_to_precision: round to the price tick (1 USDT), from a
\* value given as num/den.
_round_price(num, den) == (2 * num + den) \div (2 * den)

\* exchange.amount_to_precision: truncate to the quantity step (0.001), from a
\* value given in steps as num/den.
_round_amount(num, den) == num \div den

\* _get_position_info: the position the exchange reports, None when there is
\* none or the query fails.
_get_position_info(ex) == ex.position

\* Mutation: the lookup ignores the active flag.
_get_active_dca_anyRow(rows, pair, db_ok) ==
    LET ids == { i \in 1..Len(rows) : rows[i].pair = pair }
    IN  IF ~db_ok \/ ids = {} THEN 0
        ELSE CHOOSE i \in ids : \A j \in ids : j <= i

\* _get_active_dca: SELECT ... WHERE pair = ? AND active = 1 ORDER BY id DESC
\* LIMIT 1; the id of the row, 0 for None (also when the query fails).
_get_active_dca(rows, pair, db_ok) ==
    LET ids == { i \in 1..Len(rows) : rows[i].pair = pair /\ rows[i].active }
    IN  IF ~db_ok \/ ids = {} THEN 0
        ELSE CHOOSE i \in ids : \A j \in ids : j <= i

\* _create_dca: INSERT a row with entries = 1, avg = last = price, active.
_create_dca(rows, pair, price, qty, cost) ==
    Append(rows, [pair |-> pair, entries |-> 1, total_qty |-> qty,
                  total_cost |-> cost, avg_entry_price |-> price * 100,
                  last_entry_price |-> price, active |-> TRUE])

\* _update_dca: UPDATE entries, total_qty, total_cost, avg, last WHERE id = ?
_update_dca(rows, dca_id, entries, total_qty, total_cost, avg_price, last_price) ==
    [rows EXCEPT ![dca_id] =
        [@ EXCEPT !.entries = entries, !.total_qty = total_qty,
                  !.total_cost = total_cost, !.avg_entry_price = avg_price,
                  !.last_entry_price = last_price]]

\* _close_dca: UPDATE active = 0 WHERE id = ?
_close_dca(rows, dca_id) == [rows EXCEPT ![dca_id].active = FALSE]

\* buy_usdt = DCA_RESERVE * entry_pct
buy_usdt == (DCA_RESERVE * MoneyScale * DCA_PARAMS.entry_pct) \div 100

\* Mutation: the quantity is sized without the leverage.
DcaBuyAmount_unlevered(price) ==
    _round_amount(Max(buy_usdt, price), price)

\* amount = round_amount(max(buy_usdt * LEVERAGE / price, 0.001))
DcaBuyAmount(price) ==
    _round_amount(Max(buy_usdt * LEVERAGE, price), price)

\* Mutation: the entry cap is tested with <=.
CanAddEntry_off(entries) == entries <= DCA_PARAMS.max_entries_per_dip

\* entries < max_entries
CanAddEntry(entries) == entries < DCA_PARAMS.max_entries_per_dip

\* Mutation: a drop of exactly additional_drop_pct does not count.
DroppedEnough_strict(last_entry_price, price) ==
    (last_entry_price - price) * 100 > DCA_PARAMS.additional_drop_pct * last_entry_price

\* (last_entry_price - price) / last_entry_price >= additional_drop_pct
DroppedEnough(last_entry_price, price) ==
    (last_entry_price - price) * 100 >= DCA_PARAMS.additional_drop_pct * last_entry_price

\* Mutation: the target is the average itself.
TakeProfitPrice_atAverage(avg_entry) ==
    _round_price(avg_entry * 100, 10000)

\* tp_price = round_price(avg_entry * (1 + take_profit_pct)), avg in 1/100.
TakeProfitPrice(avg_entry) ==
    _round_price(avg_entry * (100 + DCA_PARAMS.take_profit_pct), 10000)

\* Mutation: a short position is not recognised.
IsShort_never(position_info) == FALSE

\* position_info and position_info["side"] == "short"
IsShort(position_info) ==
    position_info # NoPosition /\ position_info.side = "short"

\* Mutation: the take-profit fires at any price.
Recovered_always(price, tp_price) == TRUE

\* Mutation: the take-profit fires from 5% under the target.
Recovered_nearTarget(price, tp_price) == price * 100 >= tp_price * 95

\* price >= tp_price
Recovered(price, tp_price) == price >= tp_price

Raised(rows) == [exc |-> TRUE, signals |-> <<>>, dca |-> rows]
Returned(signals, rows) == [exc |-> FALSE, signals |-> signals, dca |-> rows]

\* _dca_signals.  ms = [pair, price, regime]; ex = the exchange's and the
\* database's answers during the call: position, funding, db_get_ok (the
\* lookup of the active row succeeds), db_write_ok (INSERT/UPDATE commit),
\* db_close_ok (the deactivating UPDATE commits).  A failed write raises out
\* of the call with the earlier writes kept.
_dca_signals(ms, ex, rows) ==
    LET pair   == ms.pair
        price  == ms.price
        dca_id == _get_active_dca(rows, pair, ex.db_get_ok)
        amount == DcaBuyAmount(price)
        buy    == Signal(pair, "BUY", price, amount, "DCA_BUY")
    IN  IF dca_id = 0
        THEN IF ex.db_write_ok
             THEN Returned(<<buy>>, _create_dca(rows, pair, price, amount, buy_usdt))
             ELSE Raised(rows)
        ELSE
        LET dca     == rows[dca_id]
            adds    == /\ CanAddEntry(dca.entries)
                       /\ DroppedEnough(dca.last_entry_price, price)
            new_total_qty  == dca.total_qty + amount
            new_total_cost == dca.total_cost + buy_usdt
            new_avg        == (new_total_cost * 100) \div new_total_qty
            rows1   == IF adds
                       THEN _update_dca(rows, dca_id, dca.entries + 1, new_total_qty,
                                        new_total_cost, new_avg, price)
                       ELSE rows
            signals == IF adds THEN <<buy>> ELSE <<>>
            avg_entry == IF adds THEN new_avg ELSE dca.avg_entry_price
            total_qty == IF adds THEN new_total_qty ELSE dca.total_qty
            tp_price  == TakeProfitPrice(avg_entry)
            position_info == _get_position_info(ex)
        IN  IF adds /\ ~ex.db_write_ok THEN Raised(rows)
            ELSE IF Recovered(price, tp_price)
                 THEN IF ~ex.db_close_ok THEN Raised(rows1)
                      ELSE IF IsShort(position_info)
                           THEN Returned(signals, _close_dca(rows1, dca_id))
                      ELSE Returned(
                             Append(signals,
                                    Signal(pair, "SELL", tp_price,
                                           _round_amount(total_qty, 1),
                                           "DCA_TAKE_PROFIT")),
                             _close_dca(rows1, dca_id))
            ELSE Returned(signals, rows1)

\* _dca_take_profit_if_recovered
_dca_take_profit_if_recovered(ms, ex, rows) ==
    LET pair   == ms.pair
        price  == ms.price
        dca_id == _get_active_dca(rows, pair, ex.db_get_ok)
        position_info == _get_position_info(ex)
    IN  IF dca_id = 0 THEN Returned(<<>>, rows)
        ELSE IF IsShort(position_info)
             THEN IF ex.db_close_ok THEN Returned(<<>>, _close_dca(rows, dca_id))
                  ELSE Raised(rows)
        ELSE IF position_info = NoPosition
             THEN IF ex.db_close_ok THEN Returned(<<>>, _close_dca(rows, dca_id))
                  ELSE Raised(rows)
        ELSE LET dca      == rows[dca_id]
                 tp_price == TakeProfitPrice(dca.avg_entry_price)
             IN  IF Recovered(price, tp_price)
                 THEN IF ex.db_close_ok
                      THEN Returned(<<Signal(pair, "SELL", tp_price,
                                             _round_amount(dca.total_qty, 1),
                                             "DCA_TAKE_PROFIT")>>,
                                    _close_dca(rows, dca_id))
                      ELSE Raised(rows)
                 ELSE Returned(<<>>, rows)

\* _check_funding_rate_safety: unsafe when the rate is beyond the extreme
\* threshold against the side; safe when the rate cannot be fetched.
_check_funding_rate_safety(ex, position_side) ==
    IF ~ex.funding.ok THEN TRUE
    ELSE IF position_side = "LONG" THEN ~(ex.funding.rate < -EXTREME_FUNDING)
    ELSE IF position_side = "SHORT" THEN ~(ex.funding.rate > EXTREME_FUNDING)
    ELSE TRUE

\* _grid_signals up to the read of market_state.regime_confidence: the
\* funding gate returns [] when unsafe; otherwise the read raises, since
\* MarketState declares no such field and the keyword given by
\* MarketAnalyst.analyze is dropped by the model class.
_grid_signals(ms, ex, rows) ==
    LET position_info == _get_position_info(ex)
        is_safe == IF position_info # NoPosition /\ position_info.amount > 0
                   THEN _check_funding_rate_safety(
                            ex, IF position_info.side = "long" THEN "LONG"
                                ELSE IF position_info.side = "short" THEN "SHORT"
                                ELSE "")
                   ELSE _check_funding_rate_safety(ex, "LONG")
    IN  IF ~is_safe THEN Returned(<<>>, rows) ELSE Raised(rows)

\* Mutation: the order of a trending market is placed on the side of the
\* position, adding to it.
_close_only_signals_sameSide(ms, ex) ==
    LET position_info == _get_position_info(ex)
    IN  IF position_info = NoPosition \/ position_info.amount = 0 THEN <<>>
        ELSE <<Signal(ms.pair, IF position_info.side = "long" THEN "BUY" ELSE "SELL",
                      ms.price, _round_amount(position_info.amount, 1),
                      IF position_info.side = "long" THEN "GRID_BUY" ELSE "GRID_SELL")>>

\* _close_only_signals: one order at half the base spacing from the price,
\* for the open quantity, on the side that closes the position.
_close_only_signals(ms, ex) ==
    LET pair  == ms.pair
        price == ms.price
        position_info == _get_position_info(ex)
        half  == GRID_PARAMS[pair].grid_spacing_pct \div 2
    IN  IF position_info = NoPosition \/ position_info.amount = 0 THEN <<>>
        ELSE LET close_amount == _round_amount(position_info.amount, 1)
             IN  IF close_amount <= 0 THEN <<>>
                 ELSE IF position_info.side = "long"
                      THEN <<Signal(pair, "SELL",
                                    _round_price(price * (10000 + half), 10000),
                                    close_amount, "GRID_SELL")>>
                 ELSE IF position_info.side = "short"
                      THEN <<Signal(pair, "BUY",
                                    _round_price(price * (10000 - half), 10000),
                                    close_amount, "GRID_BUY")>>
                 ELSE <<>>

\* generate_signals
generate_signals(ms, ex, rows) ==
    IF ms.pair \notin DOMAIN GRID_PARAMS THEN Returned(<<>>, rows)
    ELSE IF ms.regime = "CRASH" THEN _dca_signals(ms, ex, rows)
    ELSE LET dca_tp == _dca_take_profit_if_recovered(ms, ex, rows)
         IN  IF dca_tp.exc THEN dca_tp
             ELSE IF ms.regime = "RANGING"
                  THEN LET grid == _grid_signals(ms, ex, dca_tp.dca)
                       IN  IF grid.exc THEN grid
                           ELSE Returned(dca_tp.signals \o grid.signals, grid.dca)
             ELSE Returned(dca_tp.signals \o _close_only_signals(ms, ex), dca_tp.dca)


-----------------------------------------------------------------------------
(* The strategy agent on its own: a sequence of generate_signals calls on  *)
(* one configured instrument and one instrument without configuration.     *)

\* 50000 -> 48500 is a drop of exactly additional_drop_pct, 48500 -> 47000 a
\* larger one, 48500 -> 50000 a recovery past the take-profit target.
Prices == {47000, 48500, 50000}
\* 47000 -> 45500 is a further drop of more than additional_drop_pct.
LowPrice == 45500
Regimes == {"RANGING", "TRENDING_UP", "TRENDING_DOWN", "CRASH"}
Positions == {NoPosition, [side |-> "long", amount |-> 2], [side |-> "short", amount |-> 2]}
Fundings == { [ok |-> TRUE, rate |-> 0], [ok |-> TRUE, rate |-> -600] }
StrategyPairs == {"BTC/USDT:USDT", "BNB/USDT:USDT"}

\* Answers of the database during one call: all queries succeed, or the
\* lookup of the active row fails, or the INSERT/UPDATE fails, or the
\* deactivating UPDATE fails.
DbOutcomes ==
    { [db_get_ok |-> g, db_write_ok |-> w, db_close_ok |-> c] :
        <<g, w, c>> \in { <<TRUE, TRUE, TRUE>>, <<FALSE, TRUE, TRUE>>,
                          <<TRUE, FALSE, TRUE>>, <<TRUE, TRUE, FALSE>> } }

Exchange(position, funding, db) ==
    [position |-> position, funding |-> funding, db_get_ok |-> db.db_get_ok,
     db_write_ok |-> db.db_write_ok, db_close_ok |-> db.db_close_ok]

AllOk == [db_get_ok |-> TRUE, db_write_ok |-> TRUE, db_close_ok |-> TRUE]
Neutral == [ok |-> TRUE, rate |-> 0]

\* The answers a call can depend on.  Nothing is read for an instrument
\* without configuration; the funding rate is read only by the RANGING grid;
\* the position is not read by a CRASH call that finds no row; with no active
\* row there is nothing to look up or deactivate, and only a CRASH call
\* writes.  A database failure is offered with a long position and a neutral
\* funding rate.
ExchangesFor(pair, regime) ==
    IF pair \notin DOMAIN GRID_PARAMS THEN { Exchange(NoPosition, Neutral, AllOk) }
    ELSE LET has_row == _get_active_dca(dca_state, pair, TRUE) # 0
         IN  { Exchange(p, f, AllOk) :
                 p \in IF regime = "CRASH" /\ ~has_row THEN {NoPosition} ELSE Positions,
                 f \in IF regime = "RANGING" THEN Fundings ELSE {Neutral} }
             \cup
             { Exchange(IF regime = "CRASH" /\ ~has_row THEN NoPosition
                        ELSE [side |-> "long", amount |-> 2], Neutral, d) :
                 d \in IF has_row THEN DbOutcomes
                       ELSE IF regime = "CRASH"
                            THEN {AllOk, [AllOk EXCEPT !.db_write_ok = FALSE]}
                       ELSE {AllOk} }

InitDCA ==
    /\ trades = EmptyBag
    /\ dca_state = <<>>
    /\ daily_reset_state = NoRow
    /\ current_balance = starting_capital
    /\ now = 0
    /\ rm_pc = "none"
    /\ rm_call = NoCall
    /\ gs_call = NoCall
    /\ sr_call = NoCall
    /\ fn_call = NoCall
    /\ SchedulerLoaded

\* One call of generate_signals; the table has room for MaxRows rows.
GenerateSignals(ms, ex) ==
    LET r      == generate_signals(ms, ex, dca_state)
        pre_id == _get_active_dca(dca_state, ms.pair, TRUE)
    IN  /\ Len(r.dca) <= MaxRows
        /\ dca_state' = r.dca
        /\ gs_call' = [valid |-> TRUE, pair |-> ms.pair, price |-> ms.price,
                       regime |-> ms.regime,
                       pre_id |-> pre_id,
                       pre |-> IF pre_id = 0 THEN NoRow ELSE dca_state[pre_id],
                       found |-> _get_active_dca(dca_state, ms.pair, ex.db_get_ok),
                       position |-> ex.position,
                       exc |-> r.exc, signals |-> r.signals]
        /\ UNCHANGED riskVars
        /\ UNCHANGED schedVars
        /\ UNCHANGED <<sr_call, fn_call>>

\* The calls offered: every price and regime for the configured instrument
\* (TRENDING_DOWN takes the branches of TRENDING_UP and is left to it), a
\* CRASH call at the price below them once a dip has been bought
\* max_entries_per_dip times, one call for the instrument without
\* configuration.
StrategyCalls ==
    { [pair |-> "BTC/USDT:USDT", price |-> price, regime |-> regime] :
        price \in Prices, regime \in Regimes \ {"TRENDING_DOWN"} }
    \cup { [pair |-> "BTC/USDT:USDT", price |-> LowPrice, regime |-> "CRASH"] :
             i \in { k \in 1..Len(dca_state) :
                       /\ dca_state[k].active
                       /\ dca_state[k].entries = DCA_PARAMS.max_entries_per_dip } }
    \cup { [pair |-> pair, price |-> 50000, regime |-> "RANGING"] :
             pair \in StrategyPairs \ DOMAIN GRID_PARAMS }

NextDCA ==
    \E ms \in StrategyCalls :
      \E ex \in ExchangesFor(ms.pair, ms.regime) :
        GenerateSignals(ms, ex)

SpecDCA == InitDCA /\ [][NextDCA]_vars

-----------------------------------------------------------------------------
(* generate_signals on its own: one call in each regime, on an instrument  *)
(* with no position or with a long or short position of 0.4, 1 or 2 times  *)
(* the notional of a grid order, with or without a dip being averaged.     *)

GridMarkets ==
    { [pair |-> "BTC/USDT:USDT", price |-> price, regime |-> regime] :
        price \in {49000, 50000, 51000}, regime \in Regimes }

\* What fetch_positions reports: the contracts held and their entry price.
\* The notional of a grid order is 25 USDT * 10 = 250 USDT, that is 0.005 BTC
\* at 50000.
GridPositions ==
    {NoPosition}
    \cup { [side |-> side, amount |-> amount, entryPrice |-> 50000] :
             side \in {"long", "short"}, amount \in {2, 5, 10} }

\* The dca_state table: empty, or holding the row of one dip bought at 50000.
DipTables ==
    { <<>>,
      _dca_signals([pair |-> "BTC/USDT:USDT", price |-> 50000, regime |-> "CRASH"],
                   Exchange(NoPosition, Neutral, AllOk), <<>>).dca }

InitGrid ==
    /\ trades = EmptyBag
    /\ dca_state \in DipTables
    /\ daily_reset_state = NoRow
    /\ current_balance = starting_capital
    /\ now = 0
    /\ rm_pc = "none"
    /\ rm_call = NoCall
    /\ gs_call = NoCall
    /\ sr_call = NoCall
    /\ fn_call = NoCall
    /\ SchedulerLoaded

\* One call strategy.generate_signals(market_state).
GenerateSignalsCall(ms, ex) ==
    /\ ~fn_call.valid
    /\ LET r == generate_signals(ms, ex, dca_state)
       IN  /\ dca_state' = r.dca
           /\ fn_call' = [valid |-> TRUE, fn |-> "generate_signals", pair |-> ms.pair,
                          price |-> ms.price, regime |-> ms.regime,
                          position |-> ex.position, funding |-> ex.funding,
                          exc |-> r.exc, signals |-> r.signals]
    /\ UNCHANGED <<trades, daily_reset_state, current_balance, now, rm_pc,
                   rm_call, gs_call, sr_call, kill_switch_active, last_grid_center,
                   last_regime, open_orders, algo_stops, schedulers, sched_pc, pending, cycles,
                   drawdown_seen, sched_step>>

NextGrid ==
    \E ms \in GridMarkets, position \in GridPositions, funding \in Fundings :
       GenerateSignalsCall(ms, Exchange(position, funding, AllOk))

SpecGrid == InitGrid /\ [][NextGrid]_vars

-----------------------------------------------------------------------------
(* The grid spacing of _grid_signals (strategy.py:109-125) as a function   *)
(* of the values it reads: the Bollinger bands, the price, the ADX, the    *)
(* regime confidence and the level count.  The confidence is an input      *)
(* here; _grid_signals reads it from the market state it is given.         *)
(* The Bollinger width is in 1/10000 of the price, the multipliers and     *)
(* the confidence are in hundredths, the spacing is in 1/100000 (0.004 =   *)
(* 400).                                                                   *)

\* Mutation: the spacing is only bounded from below.
Clamp_noCeiling(x) == Max(400, x)

\* max(0.004, min(0.02, x))
Clamp(x) == Max(400, Min(2000, x))

\* (bb_upper - bb_lower) / price if price > 0 else 0.01
bb_width_pct(bb_upper, bb_lower, price) ==
    IF price > 0
    THEN LET num == (bb_upper - bb_lower) * 10000
         IN  IF num >= 0 THEN num \div price ELSE -((-num) \div price)
    ELSE 100

\* min(1.5, max(1.0, 1.0 + (adx - 15) * 0.02)) if adx > 15 else 1.0; the
\* scheduler computes its pair_spacing with the same expression.
adx_multiplier(adx) ==
    IF adx > 15 THEN Min(150, Max(100, 100 + (adx - 15) * 2)) ELSE 100

\* 1.3 if confidence < 0.5 else 1.0
confidence_mult(confidence) == IF confidence < 50 THEN 130 ELSE 100

spacing_pct(bb_upper, bb_lower, price, adx, confidence, num_grids) ==
    LET scaled == bb_width_pct(bb_upper, bb_lower, price) * adx_multiplier(adx)
                     * confidence_mult(confidence)
        raw    == IF scaled >= 0 THEN scaled \div (num_grids * 1000)
                  ELSE -((-scaled) \div (num_grids * 1000))
    IN  Clamp(raw)

-----------------------------------------------------------------------------
(* ExecutionAgent (agents/executor.py)                                     *)

\* The number of price units in one USDT: the prices of XRP/USDT:USDT, which
\* trades below 1 USDT, are in 1/10000 USDT; every other price is in whole
\* USDT.  It is the 1 of max(order_price, 1) and the unit of the notional.
PriceScale(pair) == IF pair = "XRP/USDT:USDT" THEN 10000 ELSE 1

IsGrid(signal) == signal.signal_type \in {"GRID_BUY", "GRID_SELL"}
IsDca(signal) == signal.signal_type \in {"DCA_BUY", "DCA_TAKE_PROFIT"}

MAX_RETRIES == 3

\* What exchange.create_order does on one attempt: it returns the order, or
\* raises InsufficientFunds, InvalidOrder, or a NetworkError/ExchangeError.
Outcomes == {"ok", "insufficient", "invalid", "network"}

\* Mutation: InsufficientFunds and InvalidOrder are handled as the other
\* exchange errors are.
IsPermanent_never(outcome) == FALSE

\* except ccxt.InsufficientFunds / except ccxt.InvalidOrder: return None
IsPermanent(outcome) == outcome \in {"insufficient", "invalid"}

\* The retry loop of _place_order from attempt number `attempt`, responses[k]
\* being what create_order does on attempt k: the trade log (a market order
\* for DCA signals, reported closed; a post-only limit order otherwise,
\* reported open) or <<>>, and the number of create_order calls made.
RECURSIVE PlaceAttempts(_, _, _)
PlaceAttempts(signal, responses, attempt) ==
    IF attempt > MAX_RETRIES THEN [trade |-> <<>>, attempts |-> MAX_RETRIES]
    ELSE IF responses[attempt] = "ok"
    THEN [trade |-> <<TradeRow(signal.pair, signal.side, signal.price, signal.amount,
                              IF IsDca(signal) THEN "FILLED" ELSE "OPEN")>>,
          attempts |-> attempt]
    ELSE IF IsPermanent(responses[attempt]) THEN [trade |-> <<>>, attempts |-> attempt]
    ELSE IF attempt = MAX_RETRIES THEN [trade |-> <<>>, attempts |-> attempt]
    ELSE PlaceAttempts(signal, responses, attempt + 1)

\* _place_order with its create_order calls counted: no call when the
\* notional is under 100 USDT.
PlaceOrder(signal, responses) ==
    IF signal.price * signal.amount < 100 * MoneyScale * PriceScale(signal.pair)
    THEN [trade |-> <<>>, attempts |-> 0]
    ELSE PlaceAttempts(signal, responses, 1)

\* _place_order against an exchange that accepts every order at once
\* (place_ok) or fails every attempt with a network error: the trade log, or
\* <<>> for None.
_place_order(signal, place_ok) ==
    PlaceOrder(signal, [k \in 1..MAX_RETRIES |->
                          IF place_ok THEN "ok" ELSE "network"]).trade

\* execute_orders: the trade logs of the signals that were placed, in order.
RECURSIVE execute_orders(_, _)
execute_orders(signals, place_ok) ==
    IF signals = <<>> THEN <<>>
    ELSE _place_order(Head(signals), place_ok) \o execute_orders(Tail(signals), place_ok)

\* The orders that newly placed trades leave resting on the exchange, as
\* fetch_open_orders reports them: type is the unified order type, raw_type
\* the exchange's own (info.type).
RECURSIVE Resting(_)
Resting(placed) ==
    IF placed = <<>> THEN <<>>
    ELSE LET t == Head(placed)
         IN  (IF t.status = "OPEN"
              THEN <<[pair |-> t.pair, side |-> t.side, price |-> t.price,
                      amount |-> t.amount, type |-> "limit", raw_type |-> "LIMIT"]>>
              ELSE <<>>) \o Resting(Tail(placed))

\* cancel_all_open_orders: every resting order of the pair is cancelled;
\* nothing when the fetch of the open orders fails.
cancel_all_open_orders(orders, pair, orders_ok) ==
    IF ~orders_ok THEN orders
    ELSE SelectSeq(orders, LAMBDA o : o.pair # pair)

\* abs(order_price - signal.price) / max(order_price, 1) < spacing_pct * 0.5,
\* spacing in 1/100000.
WithinTolerance(order, signal, spacing) ==
    /\ signal.side = order.side
    /\ Abs(order.price - signal.price) * 200000
          < spacing * Max(order.price, PriceScale(order.pair))

\* Index in to_place of the best match of an order: same side, within the
\* tolerance, the closest price, the first one on a tie; 0 when none.
BestMatch(order, to_place, spacing) ==
    LET cand == { j \in 1..Len(to_place) : WithinTolerance(order, to_place[j], spacing) }
    IN  IF cand = {} THEN 0
        ELSE CHOOSE j \in cand :
               \A k \in cand :
                  \/ Abs(order.price - to_place[j].price) < Abs(order.price - to_place[k].price)
                  \/ /\ Abs(order.price - to_place[j].price) = Abs(order.price - to_place[k].price)
                     /\ j <= k

\* Mutation: a matched signal stays in the signals to place.
RemoveAt_keepSignal(seq, j) == seq

\* signals_to_place.remove(best_match)
RemoveAt(seq, j) == SubSeq(seq, 1, j - 1) \o SubSeq(seq, j + 1, Len(seq))

\* Mutation: every order that fetch_open_orders returns is taken for a
\* limit order.
IsLimitOrder_anyType(order) == TRUE

\* order_type == "limit" and raw_type not in ("STOP_MARKET", "STOP",
\* "STOP_LIMIT")
IsLimitOrder(order) ==
    /\ order.type = "limit"
    /\ order.raw_type \notin {"STOP_MARKET", "STOP", "STOP_LIMIT"}

\* The matching loop of selective_refresh over the existing limit orders of
\* the pair, oldest first: a matched order is kept and its signal is dropped
\* from the signals to place.
RECURSIVE MatchOrders(_, _, _, _, _, _)
MatchOrders(orders, i, pair, to_place, spacing, keep) ==
    IF i > Len(orders) THEN [to_place |-> to_place, keep |-> keep]
    ELSE IF orders[i].pair # pair \/ ~IsLimitOrder(orders[i])
         THEN MatchOrders(orders, i + 1, pair, to_place, spacing, keep)
    ELSE LET j == BestMatch(orders[i], to_place, spacing)
         IN  IF j = 0 THEN MatchOrders(orders, i + 1, pair, to_place, spacing, keep)
             ELSE MatchOrders(orders, i + 1, pair, RemoveAt(to_place, j), spacing,
                              keep \cup {i})

\* Mutation: a failed fetch is treated as an empty-handed success.
FetchFailed_ignored(orders_ok) == FALSE

\* fetch_open_orders raised: the except branch of selective_refresh.
FetchFailed(orders_ok) == ~orders_ok

\* Mutation: the first cancel_order that raises ends the call; nothing is
\* placed.
AfterCancels_abort(to_place, existing, keep, failing) ==
    IF (existing \ keep) \cap failing # {} THEN <<>> ELSE to_place

\* The cancel loop of selective_refresh catches what cancel_order raises and
\* goes on: the signals to place are the same whatever the cancels did.
AfterCancels(to_place, existing, keep, failing) == to_place

\* selective_refresh, failing being the positions in orders of the orders
\* whose cancel_order raises (such an order stays resting).  The result is
\* [kept, cancelled, trades, orders, submitted]: the number of orders kept,
\* the number of orders to cancel, the trade logs of the orders placed, the
\* orders resting afterwards and the list of signals handed to
\* execute_orders.
RefreshWith(orders, pair, new_signals, spacing, orders_ok, place_ok, failing) ==
    LET existing == { i \in 1..Len(orders) :
                        orders[i].pair = pair /\ IsLimitOrder(orders[i]) }
    IN  IF FetchFailed(orders_ok) \/ existing = {}
        THEN LET placed == execute_orders(new_signals, place_ok)
             IN  [kept |-> 0, cancelled |-> 0, trades |-> placed,
                  orders |-> orders \o Resting(placed), submitted |-> new_signals,
                  to_cancel |-> {}]
        ELSE LET grid_signals     == SelectSeq(new_signals, IsGrid)
                 non_grid_signals == SelectSeq(new_signals, LAMBDA x : ~IsGrid(x))
                 m      == MatchOrders(orders, 1, pair, grid_signals, spacing, {})
                 idx    == { i \in 1..Len(orders) :
                               i \notin existing \/ i \in m.keep \/ i \in failing }
                 left   == [k \in 1..Cardinality(idx) |->
                              orders[CHOOSE i \in idx :
                                       Cardinality({ h \in idx : h <= i }) = k]]
                 submitted == AfterCancels(m.to_place \o non_grid_signals, existing,
                                           m.keep, failing)
                 placed == execute_orders(submitted, place_ok)
             IN  [kept |-> Cardinality(m.keep),
                  cancelled |-> Cardinality(existing \ m.keep), trades |-> placed,
                  orders |-> left \o Resting(placed),
                  submitted |-> submitted, to_cancel |-> existing \ m.keep]

\* selective_refresh on an exchange that carries out every cancel.
selective_refresh(orders, pair, new_signals, spacing, orders_ok, place_ok) ==
    RefreshWith(orders, pair, new_signals, spacing, orders_ok, place_ok, {})

-----------------------------------------------------------------------------
(* The executor on its own: one selective_refresh call on drawn resting    *)
(* orders, proposed signals and grid spacing, for an instrument priced in  *)
(* the tens of thousands of USDT and one priced below 1 USDT.              *)

RefreshPairs == {"BTC/USDT:USDT", "XRP/USDT:USDT"}

\* The reference price of an instrument, in its price unit: 50000 USDT and
\* 0.5 USDT.
BasePrice(pair) == IF pair = "XRP/USDT:USDT" THEN 5000 ELSE 50000

\* Grid levels at the reference price, 0.1% above it and 0.6% above it.
GridPrices(pair) ==
    {BasePrice(pair), BasePrice(pair) + BasePrice(pair) \div 1000,
     BasePrice(pair) + 6 * (BasePrice(pair) \div 1000)}

\* An order amount of a little over 100 USDT of notional at every grid level.
GridAmount(pair) == IF pair = "XRP/USDT:USDT" THEN 250000 ELSE 2

\* Buy levels at every grid price, one sell level.
GridLevels(pair) ==
    { [side |-> "BUY", price |-> p] : p \in GridPrices(pair) }
      \cup { [side |-> "SELL", price |-> BasePrice(pair) + BasePrice(pair) \div 1000] }

GridSignalsOf(pair) ==
    { Signal(pair, l.side, l.price, GridAmount(pair),
             IF l.side = "BUY" THEN "GRID_BUY" ELSE "GRID_SELL") : l \in GridLevels(pair) }

RestingOrdersOf(pair) ==
    { [pair |-> pair, side |-> l.side, price |-> l.price, amount |-> GridAmount(pair),
       type |-> "limit", raw_type |-> "LIMIT"] :
        l \in GridLevels(pair) }

SeqsUpTo(S, n) == UNION { [1..k -> S] : k \in 0..n }

\* The limit orders resting on the exchange before the call: those of one
\* instrument.
RestingLists == UNION { SeqsUpTo(RestingOrdersOf(pair), MaxResting) : pair \in RefreshPairs }

\* The signals proposed for an instrument: as generate_signals returns them,
\* the DCA signals first, then the grid.
RefreshBatches(pair) ==
    { dca \o grid :
        dca \in {<<>>, <<Signal(pair, "BUY", BasePrice(pair), GridAmount(pair), "DCA_BUY")>>},
        grid \in SeqsUpTo(GridSignalsOf(pair), MaxSignals) }

\* Grid spacings of 0.4% and 0.8%, in 1/100000.
Spacings == {400, 800}

InitRefresh ==
    /\ trades = EmptyBag
    /\ dca_state = <<>>
    /\ daily_reset_state = NoRow
    /\ current_balance = starting_capital
    /\ now = 0
    /\ rm_pc = "none"
    /\ rm_call = NoCall
    /\ gs_call = NoCall
    /\ sr_call = NoCall
    /\ fn_call = NoCall
    /\ kill_switch_active = FALSE
    /\ last_grid_center = [p \in PAIRS |-> 0]
    /\ last_regime = [p \in PAIRS |-> "none"]
    /\ open_orders \in RestingLists
    /\ algo_stops = [p \in PAIRS |-> 0]
    /\ schedulers = NoSchedulers
    /\ sched_pc = "idle"
    /\ pending = <<>>
    /\ cycles = 0
    /\ drawdown_seen = FALSE
    /\ sched_step = [valid |-> FALSE, kind |-> "none"]

\* One call executor.selective_refresh(pair, new_signals, spacing_pct).
SelectiveRefresh(pair, new_signals, spacing, orders_ok, place_ok) ==
    /\ ~sr_call.valid
    /\ LET ref == selective_refresh(open_orders, pair, new_signals, spacing,
                                    orders_ok, place_ok)
       IN  /\ open_orders' = ref.orders
           /\ sr_call' = [valid |-> TRUE, pair |-> pair, signals |-> new_signals,
                          spacing |-> spacing, orders_ok |-> orders_ok,
                          place_ok |-> place_ok, pre |-> open_orders,
                          kept |-> ref.kept, cancelled |-> ref.cancelled,
                          trades |-> ref.trades, submitted |-> ref.submitted]
    /\ UNCHANGED <<trades, dca_state, daily_reset_state, current_balance, now, rm_pc,
                   rm_call, gs_call, fn_call, kill_switch_active, last_grid_center,
                   last_regime, algo_stops, schedulers, sched_pc, pending, cycles, drawdown_seen,
                   sched_step>>

NextRefresh ==
    \E pair \in RefreshPairs, spacing \in Spacings, orders_ok \in BOOLEAN,
       place_ok \in BOOLEAN :
      \E new_signals \in RefreshBatches(pair) :
         SelectiveRefresh(pair, new_signals, spacing, orders_ok, place_ok)

SpecRefresh == InitRefresh /\ [][NextRefresh]_vars

-----------------------------------------------------------------------------
(* execute_orders on its own: one call on a drawn batch, with what         *)
(* create_order does on each attempt for each signal.                      *)

\* The freshly loaded program: empty tables, nothing called yet.
InitAlone ==
    /\ trades = EmptyBag
    /\ dca_state = <<>>
    /\ daily_reset_state = NoRow
    /\ current_balance = starting_capital
    /\ now = 0
    /\ rm_pc = "none"
    /\ rm_call = NoCall
    /\ gs_call = NoCall
    /\ sr_call = NoCall
    /\ fn_call = NoCall
    /\ SchedulerLoaded

\* A grid order of 100 USDT of notional and one of 50 USDT, under the
\* minimum.
PlaceSignals ==
    { Signal("BTC/USDT:USDT", "BUY", 50000, amount, "GRID_BUY") : amount \in {1, 2} }

\* What create_order does on the attempts for one signal: transient errors,
\* then an answer that the exchange keeps giving.
Scripts ==
    { script \in [1..MAX_RETRIES -> Outcomes] :
        \A k \in 1..(MAX_RETRIES - 1) :
           script[k] # "network" => script[k + 1] = script[k] }

\* execute_orders with the create_order calls counted, scripts[i] being the
\* exchange's answers to the attempts for signals[i]: the trades appended
\* and the number of attempts made for each signal.
RECURSIVE ExecuteOrders(_, _)
ExecuteOrders(signals, scripts) ==
    IF signals = <<>> THEN [trades |-> <<>>, attempts |-> <<>>]
    ELSE LET first == PlaceOrder(Head(signals), Head(scripts))
             rest  == ExecuteOrders(Tail(signals), Tail(scripts))
         IN  [trades |-> first.trade \o rest.trades,
              attempts |-> <<first.attempts>> \o rest.attempts]

\* One call executor.execute_orders(signals).
ExecuteOrdersCall(signals, scripts) ==
    /\ ~fn_call.valid
    /\ LET r == ExecuteOrders(signals, scripts)
       IN  fn_call' = [valid |-> TRUE, fn |-> "execute_orders", signals |-> signals,
                       scripts |-> scripts, trades |-> r.trades,
                       attempts |-> r.attempts]
    /\ UNCHANGED <<trades, dca_state, daily_reset_state, current_balance, now, rm_pc,
                   rm_call, gs_call, sr_call, kill_switch_active, last_grid_center,
                   last_regime, open_orders, algo_stops, schedulers, sched_pc, pending, cycles,
                   drawdown_seen, sched_step>>

NextPlace ==
    \E n \in 1..MaxPlace :
      \E signals \in [1..n -> PlaceSignals], scripts \in [1..n -> Scripts] :
         ExecuteOrdersCall(signals, scripts)

SpecPlace == InitAlone /\ [][NextPlace]_vars

-----------------------------------------------------------------------------
(* selective_refresh among stop orders and cancels that fail: one call on  *)
(* an instrument whose open orders include stop orders, on an exchange     *)
(* that refuses some of the cancels.                                       *)

\* What fetch_open_orders can return for the instrument: limit orders at the
\* reference price and 0.6% above it, a stop-limit order at the reference
\* price and a stop-market order 3% below it.
MixedOrders ==
    { [pair |-> "BTC/USDT:USDT", side |-> "BUY", price |-> price, amount |-> 2,
       type |-> "limit", raw_type |-> "LIMIT"] : price \in {50000, 50300} }
    \cup { [pair |-> "BTC/USDT:USDT", side |-> "BUY", price |-> 50000, amount |-> 2,
            type |-> "stop", raw_type |-> "STOP"],
           [pair |-> "BTC/USDT:USDT", side |-> "SELL", price |-> 48500, amount |-> 2,
            type |-> "stop_market", raw_type |-> "STOP_MARKET"] }

InitMixed ==
    /\ trades = EmptyBag
    /\ dca_state = <<>>
    /\ daily_reset_state = NoRow
    /\ current_balance = starting_capital
    /\ now = 0
    /\ rm_pc = "none"
    /\ rm_call = NoCall
    /\ gs_call = NoCall
    /\ sr_call = NoCall
    /\ fn_call = NoCall
    /\ kill_switch_active = FALSE
    /\ last_grid_center = [p \in PAIRS |-> 0]
    /\ last_regime = [p \in PAIRS |-> "none"]
    /\ open_orders \in SeqsUpTo(MixedOrders, MaxResting)
    /\ algo_stops = [p \in PAIRS |-> 0]
    /\ schedulers = NoSchedulers
    /\ sched_pc = "idle"
    /\ pending = <<>>
    /\ cycles = 0
    /\ drawdown_seen = FALSE
    /\ sched_step = [valid |-> FALSE, kind |-> "none"]

\* One call executor.selective_refresh(pair, new_signals, spacing_pct) during
\* which cancel_order raises for the orders at the positions in failing.
RefreshAmongStops(pair, new_signals, spacing, failing) ==
    /\ ~sr_call.valid
    /\ LET ref == RefreshWith(open_orders, pair, new_signals, spacing, TRUE, TRUE,
                              failing)
       IN  /\ open_orders' = ref.orders
           /\ sr_call' = [valid |-> TRUE, pair |-> pair, signals |-> new_signals,
                          spacing |-> spacing, pre |-> open_orders,
                          failing |-> failing, to_cancel |-> ref.to_cancel,
                          kept |-> ref.kept, cancelled |-> ref.cancelled,
                          trades |-> ref.trades, submitted |-> ref.submitted]
    /\ UNCHANGED <<trades, dca_state, daily_reset_state, current_balance, now, rm_pc,
                   rm_call, gs_call, fn_call, kill_switch_active, last_grid_center,
                   last_regime, algo_stops, schedulers, sched_pc, pending, cycles, drawdown_seen,
                   sched_step>>

NextMixed ==
    \E new_signals \in RefreshBatches("BTC/USDT:USDT"),
       failing \in SUBSET (1..Len(open_orders)) :
         RefreshAmongStops("BTC/USDT:USDT", new_signals, 800, failing)

SpecMixed == InitMixed /\ [][NextMixed]_vars

-----------------------------------------------------------------------------
(* Two scheduler processes on one database: each runs CRASH calls of       *)
(* _dca_signals for the same instrument.  A call reads the dca_state table *)
(* (the SELECT of _get_active_dca) and later writes (INSERT or UPDATEs,    *)
(* each committed on its own connection); the steps of the two processes   *)
(* interleave between the read and the write.                              *)

Schedulers == {1, 2}

\* A process outside a strategy call, after n calls.
Outside(n, overlapped, blind, pre_id, signals) ==
    [pc |-> "idle", calls |-> n, price |-> 0, db_get_ok |-> TRUE, snap |-> <<>>,
     overlapped |-> overlapped, blind |-> blind, pre_id |-> pre_id,
     signals |-> signals]

InitTwo ==
    /\ trades = EmptyBag
    /\ dca_state \in DipTables
    /\ daily_reset_state = NoRow
    /\ current_balance = starting_capital
    /\ now = 0
    /\ rm_pc = "none"
    /\ rm_call = NoCall
    /\ gs_call = NoCall
    /\ sr_call = NoCall
    /\ fn_call = NoCall
    /\ kill_switch_active = FALSE
    /\ last_grid_center = [p \in PAIRS |-> 0]
    /\ last_regime = [p \in PAIRS |-> "none"]
    /\ open_orders = <<>>
    /\ algo_stops = [p \in PAIRS |-> 0]
    /\ schedulers = [p \in Schedulers |-> Outside(0, FALSE, FALSE, 0, <<>>)]
    /\ sched_pc = "idle"
    /\ pending = <<>>
    /\ cycles = 0
    /\ drawdown_seen = FALSE
    /\ sched_step = [valid |-> FALSE, kind |-> "none"]

\* Mutation: the SELECT sees an empty table.
Snapshot_empty(rows) == <<>>

\* What the SELECT of _get_active_dca sees: the table as it is at the read.
Snapshot(rows) == rows

\* The writes of a call that read snap and computed result, carried out on
\* the table as it is now: UPDATE ... WHERE id = i sets the columns it names
\* to the values computed from the snapshot, INSERT appends the new row.
ApplyWrites(table, snap, result) ==
    [i \in 1..Len(table) |->
        IF i > Len(snap) THEN table[i]
        ELSE LET entered == IF result[i].entries # snap[i].entries
                            THEN [table[i] EXCEPT
                                    !.entries = result[i].entries,
                                    !.total_qty = result[i].total_qty,
                                    !.total_cost = result[i].total_cost,
                                    !.avg_entry_price = result[i].avg_entry_price,
                                    !.last_entry_price = result[i].last_entry_price]
                            ELSE table[i]
             IN  IF result[i].active # snap[i].active
                 THEN [entered EXCEPT !.active = result[i].active]
                 ELSE entered]
    \o SubSeq(result, Len(snap) + 1, Len(result))

\* Process p enters _dca_signals and looks the active row up.
ReadActiveRow(p, price, db_get_ok) ==
    /\ schedulers[p].pc = "idle"
    /\ schedulers[p].calls < MaxCalls
    /\ schedulers' = [schedulers EXCEPT ![p] =
                        [@ EXCEPT !.pc = "read", !.price = price,
                                  !.db_get_ok = db_get_ok,
                                  !.snap = Snapshot(dca_state),
                                  !.blind = @ \/ ~db_get_ok]]
    /\ UNCHANGED <<trades, dca_state, daily_reset_state, current_balance, now, rm_pc,
                   rm_call, gs_call, sr_call, fn_call, kill_switch_active,
                   last_grid_center, last_regime, open_orders, algo_stops, sched_pc,
                   pending, cycles, drawdown_seen, sched_step>>

\* Process p writes what it computed from its read and returns its signals;
\* a process that is between its read and its write meanwhile has been
\* overlapped when the table changed.
WriteRows(p) ==
    /\ schedulers[p].pc = "read"
    /\ LET me == schedulers[p]
           ms == [pair |-> "BTC/USDT:USDT", price |-> me.price, regime |-> "CRASH"]
           ex == Exchange(NoPosition, Neutral, [AllOk EXCEPT !.db_get_ok = me.db_get_ok])
           r  == _dca_signals(ms, ex, me.snap)
           table == ApplyWrites(dca_state, me.snap, r.dca)
       IN  /\ Len(table) <= 2 * MaxCalls + 1
           /\ dca_state' = table
           /\ schedulers' =
                [q \in Schedulers |->
                   IF q = p
                   THEN Outside(me.calls + 1, me.overlapped, me.blind,
                                _get_active_dca(me.snap, ms.pair, me.db_get_ok),
                                r.signals)
                   ELSE IF schedulers[q].pc = "read" /\ table # dca_state
                        THEN [schedulers[q] EXCEPT !.overlapped = TRUE]
                        ELSE schedulers[q]]
    /\ UNCHANGED <<trades, daily_reset_state, current_balance, now, rm_pc,
                   rm_call, gs_call, sr_call, fn_call, kill_switch_active,
                   last_grid_center, last_regime, open_orders, algo_stops, sched_pc,
                   pending, cycles, drawdown_seen, sched_step>>

NextTwo ==
    \E p \in Schedulers :
       \/ \E price \in {48500, 47000}, db_get_ok \in BOOLEAN :
             ReadActiveRow(p, price, db_get_ok)
       \/ WriteRows(p)

SpecTwo == InitTwo /\ [][NextTwo]_vars

-----------------------------------------------------------------------------
(* The grid spacing on its own: one evaluation on drawn readings.          *)

\* Readings at and between the extremes: bands of zero width, of a few
\* percent and as wide as the price, inverted bands, a price of zero and a
\* negative one, the ADX from 0 to 100, the confidence from 0 to 1, and the
\* level counts of config/grid_config.py.
SpacingInputs ==
    [bb_upper : {50000, 50600, 53000, 75000},
     bb_lower : {25000, 47000, 49400, 50000, 51000},
     price : {-1, 0, 50000},
     adx : {0, 15, 16, 25, 40, 100},
     confidence : {0, 25, 50, 100},
     num_grids : {6, 10}]

\* The evaluation of strategy.py:114-125 on one set of readings.
ComputeSpacing(in) ==
    /\ ~fn_call.valid
    /\ fn_call' = [valid |-> TRUE, fn |-> "spacing_pct", in |-> in,
                   spacing_pct |-> spacing_pct(in.bb_upper, in.bb_lower, in.price,
                                               in.adx, in.confidence, in.num_grids)]
    /\ UNCHANGED <<trades, dca_state, daily_reset_state, current_balance, now, rm_pc,
                   rm_call, gs_call, sr_call, kill_switch_active, last_grid_center,
                   last_regime, open_orders, algo_stops, schedulers, sched_pc, pending, cycles,
                   drawdown_seen, sched_step>>

NextSpacing == \E in \in SpacingInputs : ComputeSpacing(in)

SpecSpacing == InitAlone /\ [][NextSpacing]_vars

-----------------------------------------------------------------------------
(* The daily reset on its own: RiskManagers constructed one after another  *)
(* at hours that do not decrease, over a few days, the database answering. *)

\* 03:00, 06:00, 07:00 and 12:00 of each day, in hours since the first
\* midnight.
ResetTimes == { 24 * d + h : d \in 0..MaxDays, h \in {3, 6, 7, 12} }

ResetBalances == {855000, 900000}

NextReset ==
    \E balance \in ResetBalances, t \in ResetTimes : RM_Construct(balance, t, TRUE)

SpecReset == InitAlone /\ [][NextReset]_vars

-----------------------------------------------------------------------------
(* MarketAnalyst.determine_regime (agents/market_analyst.py)               *)
(*                                                                         *)
(* A 24 h price change is in 1/10000 (-0.05 = -500), the ADX and the RSI   *)
(* are in points, the volume ratio and a confidence are in hundredths.     *)

\* The CRASH test of determine_regime.
IsCrash_either(price_change, rsi) ==
    \/ price_change <= -(CRASH_DROP_PCT * 100)
    \/ rsi <= CRASH_RSI_THRESHOLD

IsCrash(price_change, rsi) ==
    /\ price_change <= -(CRASH_DROP_PCT * 100)
    /\ rsi <= CRASH_RSI_THRESHOLD

\* round(agreeing / 4, 2), in hundredths.
Confidence(agreeing) == 25 * agreeing

\* determine_regime(ind): the regime and its confidence.
determine_regime(ind) ==
    IF IsCrash(ind.price_change_24h_pct, ind.rsi)
    THEN [regime |-> "CRASH", confidence |-> 100]
    ELSE IF ind.adx >= ADX_TRENDING_THRESHOLD
    THEN LET regime == IF ind.ema_short > ind.ema_long THEN "TRENDING_UP"
                       ELSE "TRENDING_DOWN"
             agreeing == 1 + (IF ind.adx > 30 THEN 1 ELSE 0)
                           + (IF ind.volume_ratio > 150 THEN 1 ELSE 0)
                           + (IF \/ regime = "TRENDING_UP" /\ ind.rsi > 55
                                 \/ regime = "TRENDING_DOWN" /\ ind.rsi < 45
                              THEN 1 ELSE 0)
         IN  [regime |-> regime, confidence |-> Confidence(agreeing)]
    ELSE LET agreeing == 1 + (IF ind.adx < 20 THEN 1 ELSE 0)
                           + (IF ind.volume_ratio < 150 THEN 1 ELSE 0)
                           + (IF 40 < ind.rsi /\ ind.rsi < 60 THEN 1 ELSE 0)
         IN  [regime |-> "RANGING", confidence |-> Confidence(agreeing)]

\* Indicator readings around every threshold of determine_regime.
IndicatorSets ==
    [current_price : {50000},
     adx : {0, 18, 25, 35, 100},
     rsi : {20, 30, 31, 50, 70},
     ema_short : {49900, 50100},
     ema_long : {50000},
     price_change_24h_pct : {-1000, -501, -500, -499, 0, 300},
     volume_ratio : {100, 200}]

\* One call analyst.determine_regime(ind).
DetermineRegimeCall(ind) ==
    /\ ~fn_call.valid
    /\ LET r == determine_regime(ind)
       IN  fn_call' = [valid |-> TRUE, fn |-> "determine_regime", ind |-> ind,
                       regime |-> r.regime, confidence |-> r.confidence]
    /\ UNCHANGED <<trades, dca_state, daily_reset_state, current_balance, now, rm_pc,
                   rm_call, gs_call, sr_call, kill_switch_active, last_grid_center,
                   last_regime, open_orders, algo_stops, schedulers, sched_pc, pending, cycles,
                   drawdown_seen, sched_step>>

NextRegime == \E ind \in IndicatorSets : DetermineRegimeCall(ind)

SpecRegime == InitAlone /\ [][NextRegime]_vars

-----------------------------------------------------------------------------
(* scheduler.run_trading_cycle                                             *)

\* active_pairs as load_active_pairs returns it from the runtime file: here
\* the file names one pair.
active_pairs == <<"BTC/USDT:USDT">>

ActivePairSet == { active_pairs[i] : i \in 1..Len(active_pairs) }

\* Mutation: the flag check at the top of the cycle is missing.
CycleSkipped_never(flag) == FALSE

\* `if kill_switch_active: return` at the top of run_trading_cycle.
CycleSkipped(flag) == flag

\* wallet_balance: totalWalletBalance of the response, TOTAL_CAPITAL when the
\* fetch raises.
wallet_balance(resp) == IF resp.ok THEN resp.total ELSE starting_capital

\* manage_emergency_stops for one pair: with a position, keep a stop whose
\* trigger is within 0.5% of the target (3% from the entry), otherwise
\* replace it; without a position, cancel the stop.
EmergencyStop(stop, pos) ==
    IF pos # NoPosition /\ pos.amount > 0
    THEN LET target == IF pos.side = "long"
                       THEN _round_price(pos.entry_price * 97, 100)
                       ELSE _round_price(pos.entry_price * 103, 100)
         IN  IF stop > 0 /\ Abs(stop - target) * 1000 < 5 * target THEN stop
             ELSE target
    ELSE 0

manage_emergency_stops(stops, positions_pnl, pairs) ==
    [p \in DOMAIN stops |->
        IF p \in { pairs[i] : i \in 1..Len(pairs) } THEN EmergencyStop(stops[p], positions_pnl[p])
        ELSE stops[p]]

\* pair_spacing, in 1/100000, from the Bollinger width (in 1/10000 of the
\* price) and the ADX:
\* max(0.004, min(0.02, (bb_width_pct / num_grids) * adx_multiplier)).
pair_spacing(pair, bb_width, adx) ==
    LET num_grids == IF pair \in DOMAIN GRID_PARAMS THEN GRID_PARAMS[pair].num_grids ELSE 6
    IN  Max(400, Min(2000, (bb_width * adx_multiplier(adx)) \div (10 * num_grids)))

\* prev_regime == RANGING and current regime is TRENDING_UP or TRENDING_DOWN
regime_flipped_to_trending(prev_regime, current_regime) ==
    prev_regime = "RANGING" /\ current_regime \in {"TRENDING_UP", "TRENDING_DOWN"}

\* Mutation: the grid is kept only while the price has not moved at all.
GridKept_onlyUnmoved(prev_center, flipped, current_price, spacing) ==
    /\ prev_center # 0
    /\ ~flipped
    /\ current_price = prev_center

\* abs(current_price - prev_center) / prev_center < pair_spacing
GridKept(prev_center, flipped, current_price, spacing) ==
    /\ prev_center # 0
    /\ ~flipped
    /\ Abs(current_price - prev_center) * 100000 < spacing * prev_center

\* UPDATE trades SET status = 'CANCELLED' WHERE status IN ('PENDING', 'OPEN')
\* AND pair = ?
CancelledRow(r, pair) ==
    IF r.status \in {"PENDING", "OPEN"} /\ r.pair = pair
    THEN [r EXCEPT !.status = "CANCELLED"] ELSE r

MarkCancelled(B, pair) ==
    LET S == { CancelledRow(r, pair) : r \in BagToSet(B) }
        src(x) == { r \in BagToSet(B) : CancelledRow(r, pair) = x }
    IN  [x \in S |-> SumOver([r \in src(x) |-> B[r]], src(x))]

\* portfolio.record_trades: one row per trade log.
RECURSIVE record_trades(_, _)
record_trades(B, placed) ==
    IF placed = <<>> THEN B
    ELSE record_trades(B (+) SetToBag({Head(placed)}), Tail(placed))

\* ---- inputs of a cycle ----

BalanceResponses == { [ok |-> FALSE, total |-> 0],
                      [ok |-> TRUE, total |-> 810000],
                      [ok |-> TRUE, total |-> 900000] }

SchedPositions == { NoPosition,
                    [side |-> "long", amount |-> 2, entry_price |-> 50000] }

\* What MarketAnalyst.analyze returns for a pair: it raises, or a market state
\* whose regime agrees with its ADX (TRENDING from 25, CRASH at any ADX).
\* TRENDING_UP stands for both trending regimes, which no branch of the cycle
\* tells apart.
Analyses ==
    { [ok |-> FALSE, price |-> 0, regime |-> "none", bb_width |-> 0, adx |-> 0] }
    \cup { [ok |-> TRUE, price |-> p, regime |-> r.regime, bb_width |-> w, adx |-> r.adx] :
             p \in {50000, 50300}, w \in {120, 1200},
             r \in { [regime |-> "RANGING", adx |-> 10],
                     [regime |-> "TRENDING_UP", adx |-> 30],
                     [regime |-> "CRASH", adx |-> 30] } }

\* One thing at most goes wrong in the rest of a step: the fetch of the open
\* orders, the placing of the orders, or the database.
Faults == {"none", "orders", "place", "db"}

\* The answers to the strategy agent during a step.
SchedExchanges(regime) ==
    { Exchange(p, f, AllOk) :
        p \in SchedPositions,
        f \in IF regime = "RANGING" THEN {Neutral, [ok |-> TRUE, rate |-> -600]}
              ELSE {Neutral} }

SchedIncomes == { [ok |-> FALSE, sum |-> 0], [ok |-> TRUE, sum |-> -45000] }

Init ==
    /\ trades = EmptyBag
    /\ dca_state = <<>>
    /\ daily_reset_state = NoRow
    /\ current_balance = starting_capital
    /\ now = 6
    /\ rm_pc = "none"
    /\ rm_call = NoCall
    /\ gs_call = NoCall
    /\ sr_call = NoCall
    /\ fn_call = NoCall
    /\ SchedulerLoaded

\* run_trading_cycle up to the for loop: the flag check, the exchange
\* connection, the balance, the RiskManager (with its daily reset check) and
\* the emergency stops.
StartCycle(connect_ok, resp, t, db_ok, positions_pnl, pairs) ==
    /\ sched_pc = "idle"
    /\ cycles < MaxCycles
    /\ cycles' = cycles + 1
    /\ IF CycleSkipped(kill_switch_active)
       THEN /\ sched_step' = [valid |-> TRUE, kind |-> "skipped"]
            /\ UNCHANGED <<trades, dca_state, daily_reset_state, current_balance, now,
                           kill_switch_active, last_grid_center, last_regime,
                           open_orders, algo_stops, schedulers, sched_pc, pending, drawdown_seen>>
       ELSE IF ~connect_ok
       THEN /\ sched_step' = [valid |-> TRUE, kind |-> "cycle_error"]
            /\ UNCHANGED <<trades, dca_state, daily_reset_state, current_balance, now,
                           kill_switch_active, last_grid_center, last_regime,
                           open_orders, algo_stops, schedulers, sched_pc, pending, drawdown_seen>>
       ELSE /\ now' = t
            /\ current_balance' = wallet_balance(resp)
            /\ daily_reset_state' =
                 _check_and_reset_daily_balance(daily_reset_state, wallet_balance(resp),
                                                t, db_ok)
            /\ algo_stops' = manage_emergency_stops(algo_stops, positions_pnl, pairs)
            /\ UNCHANGED schedulers
            /\ sched_pc' = "loop"
            /\ pending' = pairs
            /\ sched_step' = [valid |-> TRUE, kind |-> "started", errors |-> 0]
            /\ UNCHANGED <<trades, dca_state, kill_switch_active, last_grid_center,
                           last_regime, open_orders, drawdown_seen>>
    /\ UNCHANGED <<rm_pc, rm_call, gs_call, sr_call, fn_call>>

\* What a step of the for loop saw and did: the analysis (regime "none" when
\* it raised), the refresh threshold, and the counts of the report.
StepObs(kind, pair, an, spacing, approved, placed) ==
    [valid |-> TRUE, kind |-> kind, pair |-> pair, regime |-> an.regime,
     price |-> an.price, spacing |-> spacing, approved |-> approved,
     placed |-> placed,
     errors |-> sched_step.errors + (IF kind = "error" THEN 1 ELSE 0)]

\* Mutation: an exception in one iteration ends the for loop.
Remaining_abortOnError(pairs_left, raised) ==
    IF raised THEN <<>> ELSE Tail(pairs_left)

\* The for loop goes on with the next pair, after the body or after the
\* except clause of the iteration.
Remaining(pairs_left, raised) == Tail(pairs_left)

\* One iteration of the for loop over the pairs.
ProcessPair(an, ex, income, fault) ==
    /\ sched_pc = "loop"
    /\ pending # <<>>
    /\ LET pair == Head(pending)
       IN  IF ~an.ok
           THEN \* analyst.analyze raises: the except clause of the iteration
                /\ sched_step' = StepObs("error", pair, an, 0, 0, 0)
                /\ UNCHANGED <<trades, dca_state, kill_switch_active, last_grid_center,
                               last_regime, open_orders>>
           ELSE
           LET ms      == [pair |-> pair, price |-> an.price, regime |-> an.regime]
               flipped == regime_flipped_to_trending(last_regime[pair], an.regime)
               spacing == pair_spacing(pair, an.bb_width, an.adx)
               center1 == IF flipped THEN [last_grid_center EXCEPT ![pair] = 0]
                          ELSE last_grid_center
               gs      == generate_signals(ms, ex, dca_state)
               db_ok   == fault # "db"
               approved == validate_signals(gs.signals, income, db_ok)
               ref     == IF flipped
                          THEN LET placed == execute_orders(approved, fault # "place")
                               IN  [kept |-> 0, trades |-> placed,
                                    orders |-> cancel_all_open_orders(
                                                 open_orders, pair, fault # "orders")
                                               \o Resting(placed)]
                          ELSE selective_refresh(open_orders, pair, approved, spacing,
                                                 fault # "orders", fault # "place")
           IN  /\ last_regime' = [last_regime EXCEPT ![pair] = an.regime]
               /\ IF GridKept(last_grid_center[pair], flipped, an.price, spacing)
                  THEN \* existing grid kept: continue
                       /\ sched_step' = StepObs("kept", pair, an, spacing, 0, 0)
                       /\ UNCHANGED <<trades, dca_state, kill_switch_active,
                                      last_grid_center, open_orders>>
                  ELSE IF gs.exc
                  THEN \* generate_signals raises: the except clause
                       /\ dca_state' = gs.dca
                       /\ last_grid_center' = center1
                       /\ sched_step' = StepObs("error", pair, an, spacing, 0, 0)
                       /\ UNCHANGED <<trades, kill_switch_active, open_orders>>
                  ELSE IF ~db_ok
                  THEN \* the UPDATE of trades raises after the executor has acted
                       /\ dca_state' = gs.dca
                       /\ last_grid_center' = center1
                       /\ open_orders' = ref.orders
                       /\ sched_step' = StepObs("error", pair, an, spacing,
                                                Len(approved), Len(ref.trades))
                       /\ UNCHANGED <<trades, kill_switch_active>>
                  ELSE /\ dca_state' = gs.dca
                       /\ open_orders' = ref.orders
                       /\ trades' = record_trades(MarkCancelled(trades, pair), ref.trades)
                       /\ last_grid_center' =
                            IF Len(ref.trades) > 0 \/ ref.kept > 0
                            THEN [center1 EXCEPT ![pair] = an.price]
                            ELSE center1
                       /\ kill_switch_active' =
                            IF check_kill_switch(current_balance) THEN TRUE
                            ELSE kill_switch_active
                       /\ sched_step' = StepObs("done", pair, an, spacing,
                                                Len(approved), Len(ref.trades))
    /\ pending' = Remaining(pending, sched_step'.kind = "error")
    /\ UNCHANGED <<daily_reset_state, current_balance, now, algo_stops, schedulers, sched_pc, cycles,
                   drawdown_seen, rm_pc, rm_call, gs_call, sr_call, fn_call>>

\* The end of run_trading_cycle after the for loop: the report.
EndCycle ==
    /\ sched_pc = "loop"
    /\ pending = <<>>
    /\ sched_pc' = "idle"
    /\ drawdown_seen' = (drawdown_seen \/ check_kill_switch(current_balance))
    /\ sched_step' = [valid |-> TRUE, kind |-> "ended", errors |-> sched_step.errors]
    /\ UNCHANGED <<trades, dca_state, daily_reset_state, current_balance, now,
                   kill_switch_active, last_grid_center, last_regime, open_orders,
                   algo_stops, schedulers, pending, cycles, rm_pc, rm_call, gs_call, sr_call, fn_call>>

Next ==
    \/ \E connect_ok \in BOOLEAN, resp \in BalanceResponses,
          t \in { h \in Times : h >= now /\ h <= now + 1 }, db_ok \in {TRUE},
          positions_pnl \in [ActivePairSet -> SchedPositions] :
          StartCycle(connect_ok, resp, t, db_ok, positions_pnl, active_pairs)
    \/ \E an \in Analyses, income \in SchedIncomes, fault \in Faults :
         \E ex \in SchedExchanges(an.regime) :
            ProcessPair(an, ex, income, fault)
    \/ EndCycle

Spec == Init /\ [][Next]_vars

\* One cycle over two active pairs, the first two of settings.PAIRS: the
\* balance is fetched, the analysis of a pair raises or returns a market
\* state at 50000, and one thing at most goes wrong in the rest of a step.
default_pairs == <<"BTC/USDT:USDT", "ETH/USDT:USDT">>

PairAnalyses == { an \in Analyses : ~an.ok \/ (an.price = 50000 /\ an.bb_width = 1200) }

NextPairs ==
    \/ /\ cycles = 0
       /\ \E resp \in BalanceResponses,
             positions_pnl \in [{"BTC/USDT:USDT", "ETH/USDT:USDT"} -> SchedPositions] :
             StartCycle(TRUE, resp, now, TRUE, positions_pnl, default_pairs)
    \/ \E an \in PairAnalyses, income \in SchedIncomes, fault \in Faults :
         \E ex \in SchedExchanges(an.regime) :
            ProcessPair(an, ex, income, fault)
    \/ EndCycle

SpecPairs == Init /\ [][NextPairs]_vars

\* Cycles over the same two active pairs in which every call to the
\* exchange after the analysis succeeds, and the UPDATE of trades too: what
\* can go wrong in a step is the analysis or the strategy.
NextCancelOk ==
    \/ \E resp \in BalanceResponses,
          positions_pnl \in [{"BTC/USDT:USDT", "ETH/USDT:USDT"} -> SchedPositions] :
          StartCycle(TRUE, resp, now, TRUE, positions_pnl, default_pairs)
    \/ \E an \in PairAnalyses, income \in SchedIncomes :
         \E ex \in SchedExchanges(an.regime) :
            ProcessPair(an, ex, income, "none")
    \/ EndCycle

SpecCancelOk == Init /\ [][NextCancelOk]_vars

-----------------------------------------------------------------------------
(* Properties of the risk gate                                             *)

Validated == rm_pc = "validated"

\* s is obtained from t by deleting elements (order kept).
RECURSIVE IsSubsequence(_, _)
IsSubsequence(s, t) ==
    IF s = <<>> THEN TRUE
    ELSE IF t = <<>> THEN FALSE
    ELSE IF Head(s) = Head(t) THEN IsSubsequence(Tail(s), Tail(t))
    ELSE IsSubsequence(s, Tail(t))

C4_DailyLossBlocks ==
    Validated /\ rm_call.daily_pnl <= -45000 => rm_call.approved = <<>>

C4_Witness ==
    /\ Validated
    /\ ~rm_call.kill
    /\ ~rm_call.from_income
    /\ rm_call.daily_pnl = -45000
    /\ Len(rm_call.signals) > 0
    /\ rm_call.approved = <<>>

C4_WitnessIncome ==
    /\ Validated
    /\ ~rm_call.kill
    /\ rm_call.from_income
    /\ rm_call.daily_pnl = -45000
    /\ Len(rm_call.signals) > 0
    /\ rm_call.approved = <<>>

WithinMarginCap(s, db_ok) ==
    _get_pair_exposure(s.pair, db_ok) + s.price * s.amount <= 7200000

RECURSIVE ApprovedBuyNotional(_, _, _)
ApprovedBuyNotional(approved, pair, n) ==
    IF n = 0 THEN 0
    ELSE (IF approved[n].pair = pair /\ approved[n].side = "BUY"
          THEN approved[n].price * approved[n].amount ELSE 0)
         + ApprovedBuyNotional(approved, pair, n - 1)

-----------------------------------------------------------------------------
(* Properties of the DCA state machine                                     *)

\* The last call was a CRASH call that found the instrument's active row.
CrashOnActiveRow ==
    /\ gs_call.valid
    /\ gs_call.regime = "CRASH"
    /\ gs_call.pre_id # 0
    /\ gs_call.found = gs_call.pre_id

HasDcaBuy(signals, price) ==
    \E i \in 1..Len(signals) :
        /\ signals[i].signal_type = "DCA_BUY"
        /\ signals[i].side = "BUY"
        /\ signals[i].price = price

\* C7: every active DCA row with total_qty > 0 has avg_entry_price equal to
\* total_cost / total_qty (here: within 1 USDT), after the first entry as
\* well as after every additional entry.
C7_AvgIsCostOverQty ==
    \A i \in 1..Len(dca_state) :
        LET r == dca_state[i]
        IN  r.active /\ r.total_qty > 0
                => Abs(r.avg_entry_price * r.total_qty - 100 * r.total_cost)
                       <= 100 * r.total_qty

CrashOnNoRow ==
    /\ gs_call.valid
    /\ gs_call.regime = "CRASH"
    /\ gs_call.pair \in DOMAIN GRID_PARAMS
    /\ gs_call.pre_id = 0
    /\ ~gs_call.exc

C10_AdditionalEntry ==
    ( /\ CrashOnActiveRow
      /\ ~gs_call.exc
      /\ gs_call.pre.entries < 3
      /\ DroppedEnough(gs_call.pre.last_entry_price, gs_call.price) )
    => LET r == dca_state[gs_call.pre_id]
       IN  /\ HasDcaBuy(gs_call.signals, gs_call.price)
           /\ r.active
           /\ r.entries = gs_call.pre.entries + 1
           /\ r.avg_entry_price > gs_call.price * 100
           /\ gs_call.pre.entries = 1
                 => r.avg_entry_price < gs_call.pre.last_entry_price * 100

-----------------------------------------------------------------------------
(* Properties of the DCA take-profit                                       *)

\* The last call was for an instrument whose active row it found.
ActiveRowSeen ==
    /\ gs_call.valid
    /\ gs_call.pre_id # 0
    /\ gs_call.found = gs_call.pre_id

\* The row the last call found, as the call left it.
RowAfter == dca_state[gs_call.pre_id]

\* avg * (1 + 1%), rounded to the price tick; avg in hundredths.
TargetOf(avg) == (avg * 101 + 5000) \div 10000

TakeProfits(signals) ==
    { i \in 1..Len(signals) : signals[i].signal_type = "DCA_TAKE_PROFIT" }

ObservedShort ==
    gs_call.position # NoPosition /\ gs_call.position.side = "short"

\* One take-profit SELL at the target of the row for its whole quantity.
OneTakeProfitAtTarget ==
    /\ Cardinality(TakeProfits(gs_call.signals)) = 1
    /\ \A i \in TakeProfits(gs_call.signals) :
          /\ gs_call.signals[i].side = "SELL"
          /\ gs_call.signals[i].pair = gs_call.pair
          /\ gs_call.signals[i].price = TargetOf(RowAfter.avg_entry_price)
          /\ gs_call.signals[i].amount = RowAfter.total_qty

BelowTarget ==
    /\ ActiveRowSeen
    /\ ~gs_call.exc
    /\ gs_call.price < TargetOf(RowAfter.avg_entry_price)

RowLeftAlone ==
    /\ RowAfter.active
    /\ ~HasDcaBuy(gs_call.signals, gs_call.price) => RowAfter = gs_call.pre

PositionQueried ==
    \/ gs_call.regime # "CRASH"
    \/ gs_call.price >= TargetOf(RowAfter.avg_entry_price)

C15_ClosedRowsImmutable ==
    [][ \A i \in 1..Len(dca_state) :
          /\ Len(dca_state') >= i
          /\ dca_state[i].active
               => /\ dca_state'[i].entries >= dca_state[i].entries
                  /\ dca_state'[i].total_qty >= dca_state[i].total_qty
                  /\ dca_state'[i].total_cost >= dca_state[i].total_cost
          /\ ~dca_state[i].active => dca_state'[i] = dca_state[i] ]_vars

\* A closed row followed by the row of a new dip on the same instrument.
C15_Witness ==
    /\ Len(dca_state) = 2
    /\ ~dca_state[1].active
    /\ dca_state[2].active
    /\ dca_state[2].pair = dca_state[1].pair
    /\ dca_state[2].entries = 1
    /\ gs_call.valid
    /\ gs_call.regime = "CRASH"
    /\ gs_call.pre_id = 0

\* C16: at most one row per instrument is active, also after a call in which
\* the lookup of the active row failed.
C16_OneActiveRow ==
    \A i, j \in 1..Len(dca_state) :
        (dca_state[i].active /\ dca_state[j].active
           /\ dca_state[i].pair = dca_state[j].pair) => i = j

\* The last call was a CRASH call on a row with fewer than 3 entries, at a
\* price 3% or more under the row's last entry price.
EntryDue ==
    /\ gs_call.regime = "CRASH"
    /\ gs_call.pre.entries < 3
    /\ (gs_call.pre.last_entry_price - gs_call.price) * 100
          >= 3 * gs_call.pre.last_entry_price

-----------------------------------------------------------------------------
(* Properties of selective_refresh                                         *)

\* The resting limit orders of the instrument before the call.
ExistingLimit == SelectSeq(sr_call.pre, LAMBDA o : o.pair = sr_call.pair)

ProposedGrid == SelectSeq(sr_call.signals, IsGrid)

ProposedNonGrid == SelectSeq(sr_call.signals, LAMBDA x : ~IsGrid(x))

\* |resting - signal| / resting < spacing / 2 on the same side: the relative
\* price difference, spacing in 1/100000.
RelativelyClose(order, signal, spacing) ==
    /\ signal.side = order.side
    /\ Abs(order.price - signal.price) * 200000 < spacing * order.price

\* C18: in a selective_refresh call whose fetch succeeds a resting limit
\* order is kept exactly when some unmatched grid signal of its side is
\* within half the grid spacing of it in relative price, whatever the price
\* scale of the instrument, and is cancelled otherwise.  Stated for the
\* first order examined, for which every grid signal is still unmatched.
C18_KeptIffWithinHalfSpacing ==
    (sr_call.valid /\ sr_call.orders_ok /\ Len(ExistingLimit) = 1)
       => LET close == { j \in 1..Len(ProposedGrid) :
                           RelativelyClose(ExistingLimit[1], ProposedGrid[j],
                                           sr_call.spacing) }
          IN  /\ (sr_call.kept = 1) <=> (close # {})
              /\ (sr_call.cancelled = 1) <=> (close = {})

\* C19: in a selective_refresh call whose fetch succeeds, kept + cancelled is
\* the number of resting limit orders of the instrument, a kept order
\* consumes one grid signal of its own, and the list handed to
\* execute_orders is the grid signals left unmatched together with every
\* non-grid signal.
C19_RefreshAccounting ==
    (sr_call.valid /\ sr_call.orders_ok)
       => LET sub_grid == SelectSeq(sr_call.submitted, IsGrid)
              sub_non  == SelectSeq(sr_call.submitted, LAMBDA x : ~IsGrid(x))
          IN  /\ sr_call.kept + sr_call.cancelled = Len(ExistingLimit)
              /\ sr_call.kept <= Len(ProposedGrid)
              /\ Len(sub_grid) = Len(ProposedGrid) - sr_call.kept
              /\ IsSubsequence(sub_grid, ProposedGrid)
              /\ sub_non = ProposedNonGrid
              /\ Len(sr_call.submitted) = Len(sr_call.signals) - sr_call.kept
              /\ Len(SelectSeq(open_orders, LAMBDA o : o.pair = sr_call.pair))
                    = sr_call.kept
                        + Len(SelectSeq(sr_call.trades, LAMBDA t : t.status = "OPEN"))

C19_Witness ==
    /\ sr_call.valid
    /\ sr_call.orders_ok
    /\ Len(ExistingLimit) = 2
    /\ sr_call.kept = 1
    /\ sr_call.cancelled = 1
    /\ Len(ProposedGrid) = 2
    /\ Len(ProposedNonGrid) = 1
    /\ Len(sr_call.submitted) = 2

\* C20: when the fetch of the open orders fails, selective_refresh cancels
\* nothing, hands every proposed signal to execute_orders and reports
\* kept = 0 and cancelled = 0.
C20_FetchFailurePlacesAll ==
    (sr_call.valid /\ ~sr_call.orders_ok)
       => /\ sr_call.kept = 0
          /\ sr_call.cancelled = 0
          /\ sr_call.submitted = sr_call.signals
          /\ Len(open_orders) >= Len(sr_call.pre)
          /\ SubSeq(open_orders, 1, Len(sr_call.pre)) = sr_call.pre
          /\ sr_call.place_ok => Len(sr_call.trades) = Len(sr_call.signals)
          /\ ~sr_call.place_ok => sr_call.trades = <<>>

C20_Witness ==
    /\ sr_call.valid
    /\ ~sr_call.orders_ok
    /\ sr_call.place_ok
    /\ Len(ExistingLimit) = 2
    /\ Len(ProposedGrid) = 2
    /\ \A i \in 1..2 : ProposedGrid[i].price = ExistingLimit[i].price
                          /\ ProposedGrid[i].side = ExistingLimit[i].side
    /\ Len(sr_call.trades) = Len(sr_call.signals)
    /\ Len(open_orders) = 4

-----------------------------------------------------------------------------
(* Properties of the grid refresh in run_trading_cycle                     *)

\* The step taken is an iteration of the for loop whose analysis succeeded.
PairAnalysed ==
    /\ sched_pc = "loop"
    /\ pending # <<>>
    /\ pending' = Tail(pending)
    /\ sched_step'.valid
    /\ sched_step'.regime # "none"

\* The recorded regime is RANGING and the analysed one is a trending one.
FlipSeen ==
    /\ last_regime[Head(pending)] = "RANGING"
    /\ sched_step'.regime \in {"TRENDING_UP", "TRENDING_DOWN"}

\* A center is recorded and the price is less than one spacing away from it.
WithinOneSpacing ==
    LET center == last_grid_center[Head(pending)]
    IN  /\ center # 0
        /\ Abs(sched_step'.price - center) * 100000 < sched_step'.spacing * center

PairOrders(orders, pair) == SelectSeq(orders, LAMBDA o : o.pair = pair)

\* C21: an iteration that finds a recorded grid center, no flip from RANGING
\* to a trending regime and a price less than one spacing from the center
\* keeps the grid: it approves and places nothing and leaves the resting
\* orders, the trades table, the DCA rows and the grid centers as they were.
C21_GridKeptUntouched ==
    [][ (PairAnalysed /\ ~FlipSeen /\ WithinOneSpacing)
           => /\ sched_step'.kind = "kept"
              /\ sched_step'.approved = 0
              /\ sched_step'.placed = 0
              /\ UNCHANGED <<open_orders, trades, dca_state, last_grid_center,
                             kill_switch_active>> ]_vars

C21_Witness ==
    /\ sched_step.valid
    /\ sched_step.kind = "kept"
    /\ sched_step.regime = "TRENDING_UP"
    /\ last_grid_center[sched_step.pair] # 0
    /\ sched_step.price # last_grid_center[sched_step.pair]
    /\ PairOrders(open_orders, sched_step.pair) # <<>>

\* C22: an iteration that finds the recorded regime RANGING and the analysed
\* regime trending does not keep the grid, whatever the price; when it runs
\* to its end the grid center is cleared (and set again only to the current
\* price) and no order of the instrument that rested before the iteration
\* rests after it: the instrument's resting orders are at most the orders
\* the iteration placed.
C22_FlipCancelsStaleOrders ==
    [][ (PairAnalysed /\ FlipSeen)
           => /\ sched_step'.kind # "kept"
              /\ sched_step'.kind = "done"
                    => /\ last_grid_center'[Head(pending)] \in {0, sched_step'.price}
                       /\ Len(PairOrders(open_orders', Head(pending)))
                             <= sched_step'.placed ]_vars

\* C23: an iteration of the for loop that raises is recorded as the error of
\* its pair and the loop goes on with the next pair: every iteration, raising
\* or not, hands the pairs after its own to the loop, and the cycle ends
\* only when no pair is left.
C23_ErrorIsolated ==
    [][ /\ (sched_pc = "loop" /\ sched_pc' = "loop")
            => /\ pending # <<>>
               /\ pending' = Tail(pending)
               /\ sched_step'.pair = Head(pending)
               /\ sched_step'.errors
                     = sched_step.errors + (IF sched_step'.kind = "error" THEN 1 ELSE 0)
        /\ (sched_pc = "loop" /\ sched_pc' = "idle")
            => /\ pending = <<>>
               /\ sched_step'.errors = sched_step.errors ]_vars

\* The first pair raised and the second one was processed to its end.
C23_Witness ==
    /\ sched_pc = "loop"
    /\ sched_step.valid
    /\ sched_step.kind = "done"
    /\ sched_step.pair = "ETH/USDT:USDT"
    /\ sched_step.errors = 1
    /\ sched_step.placed > 0
    /\ pending = <<>>

-----------------------------------------------------------------------------
(* Properties of order placement                                           *)

\* The first attempt that does not end in a transient error, MAX_RETRIES + 1
\* when every attempt does.
FirstDecisive(script) ==
    IF \A k \in 1..MAX_RETRIES : script[k] = "network" THEN MAX_RETRIES + 1
    ELSE CHOOSE k \in 1..MAX_RETRIES :
           /\ script[k] # "network"
           /\ \A j \in 1..(k - 1) : script[j] = "network"

Attempted(i) == fn_call.signals[i].price * fn_call.signals[i].amount >= 100 * MoneyScale

\* The signals of the batch that were placed, in order.
PlacedOf(signals, scripts) ==
    LET idx == { i \in 1..Len(signals) :
                   /\ signals[i].price * signals[i].amount >= 100 * MoneyScale
                   /\ FirstDecisive(scripts[i]) <= MAX_RETRIES
                   /\ scripts[i][FirstDecisive(scripts[i])] = "ok" }
    IN  [k \in 1..Cardinality(idx) |->
           signals[CHOOSE i \in idx : Cardinality({ h \in idx : h <= i }) = k]]

-----------------------------------------------------------------------------
(* Properties of determine_regime                                          *)

RegimeCalled == fn_call.valid /\ fn_call.fn = "determine_regime"

-----------------------------------------------------------------------------
(* Properties of signal generation by regime                               *)

SignalsCalled == fn_call.valid /\ fn_call.fn = "generate_signals"

GridSignals(signals) ==
    SelectSeq(signals, LAMBDA x : x.signal_type \in {"GRID_BUY", "GRID_SELL"})

GridBuys(signals) == SelectSeq(signals, LAMBDA x : x.signal_type = "GRID_BUY")

GridSells(signals) == SelectSeq(signals, LAMBDA x : x.signal_type = "GRID_SELL")

\* The funding gate lets the grid through: the rate is not beyond the
\* extreme threshold against the side of the position (long when flat).
GateOpen ==
    \/ ~fn_call.funding.ok
    \/ IF fn_call.position # NoPosition /\ fn_call.position.side = "short"
       THEN fn_call.funding.rate <= 500
       ELSE fn_call.funding.rate >= -500

\* The notional of the position on the given side, and of k grid orders, both
\* in thousandths of a USDT.
PositionNotional(side) ==
    IF fn_call.position # NoPosition /\ fn_call.position.side = side
    THEN fn_call.position.amount * fn_call.position.entryPrice
    ELSE 0

OrderNotional(k) == k * 25 * 10 * 1000

\* C26: a RANGING grid generation that the funding gate does not skip yields
\* BUY and SELL grid signals whose numbers sum to the instrument's num_grids
\* (6), one side having none in close-only mode.
C26_GridCountsSumToLevels ==
    (SignalsCalled /\ fn_call.regime = "RANGING" /\ GateOpen)
       => /\ ~fn_call.exc
          /\ Len(GridBuys(fn_call.signals)) + Len(GridSells(fn_call.signals)) = 6
          /\ (\/ PositionNotional("long") >= OrderNotional(2)
              \/ PositionNotional("short") >= OrderNotional(2))
                => (\/ Len(GridBuys(fn_call.signals)) = 0
                    \/ Len(GridSells(fn_call.signals)) = 0)

\* C28: in a RANGING grid that the funding gate lets through, a long
\* position of at least 2 order notionals gives no BUY and 6 SELL levels, a
\* short one of at least 2 gives no SELL and 6 BUY levels, a position of 1 to
\* 2 order notionals gives more levels on the reducing side than on the
\* adding side, and a smaller one or none gives 3 and 3.
C28_HeavyPositionClosesOnly ==
    (SignalsCalled /\ fn_call.regime = "RANGING" /\ GateOpen)
       => LET buys  == Len(GridBuys(fn_call.signals))
              sells == Len(GridSells(fn_call.signals))
              long  == PositionNotional("long")
              short == PositionNotional("short")
          IN  /\ long >= OrderNotional(2) => buys = 0 /\ sells = 6
              /\ short >= OrderNotional(2) => sells = 0 /\ buys = 6
              /\ (long >= OrderNotional(1) /\ long < OrderNotional(2))
                    => buys > 0 /\ sells > buys /\ buys + sells = 6
              /\ (short >= OrderNotional(1) /\ short < OrderNotional(2))
                    => sells > 0 /\ buys > sells /\ buys + sells = 6
              /\ (long < OrderNotional(1) /\ short < OrderNotional(1))
                    => buys = 3 /\ sells = 3

\* The side and the type of the order that reduces the position held.
ClosesPosition(signal) ==
    /\ fn_call.position # NoPosition
    /\ \/ /\ fn_call.position.side = "long"
          /\ signal.side = "SELL"
          /\ signal.signal_type = "GRID_SELL"
       \/ /\ fn_call.position.side = "short"
          /\ signal.side = "BUY"
          /\ signal.signal_type = "GRID_BUY"

C35_RangingYieldsGrid ==
    (SignalsCalled /\ fn_call.regime = "RANGING" /\ GateOpen
       /\ fn_call.pair \in DOMAIN GRID_PARAMS)
       => /\ ~fn_call.exc
          /\ GridSignals(fn_call.signals) # <<>>

\* C27: the spacing computed by _grid_signals lies in [0.004, 0.02] for
\* every input, the extremes of the ADX, the confidence and the Bollinger
\* width and a price that is not positive included.
C27_SpacingClamped ==
    (fn_call.valid /\ fn_call.fn = "spacing_pct")
       => /\ fn_call.spacing_pct >= 400
          /\ fn_call.spacing_pct <= 2000

\* Bands as wide as the price with the ADX at 100 and the confidence at 0:
\* the spacing is held at 0.02.
C27_Witness ==
    /\ fn_call.valid
    /\ fn_call.fn = "spacing_pct"
    /\ fn_call.in.bb_upper - fn_call.in.bb_lower = fn_call.in.price
    /\ fn_call.in.price > 0
    /\ fn_call.in.adx = 100
    /\ fn_call.in.confidence = 0
    /\ fn_call.spacing_pct = 2000

-----------------------------------------------------------------------------
(* Properties of the daily reset                                           *)

\* A 07:00 boundary lies after the recorded reset and not after hour t.
BoundaryCrossed(last_reset_time, t) ==
    \E d \in 0..(MaxDays + 1) :
       /\ last_reset_time < 24 * d + 7
       /\ 24 * d + 7 <= t

\* C30: a RiskManager constructed when a row exists overwrites it with the
\* current balance and time if a 07:00 boundary has been crossed since the
\* recorded reset, and leaves it alone otherwise; the recorded time never
\* decreases and the row never disappears.
C30_ResetOncePerBoundary ==
    [][ daily_reset_state # NoRow
           => /\ daily_reset_state' # NoRow
              /\ daily_reset_state'.last_reset_time >= daily_reset_state.last_reset_time
              /\ IF BoundaryCrossed(daily_reset_state.last_reset_time, now')
                 THEN daily_reset_state' = [daily_start_balance |-> current_balance',
                                            last_reset_time |-> now']
                 ELSE daily_reset_state' = daily_reset_state ]_vars

-----------------------------------------------------------------------------
(* Properties of selective_refresh among stop orders and failing cancels   *)

IsStopOrder(order) == order.raw_type \in {"STOP_MARKET", "STOP", "STOP_LIMIT"}

StopOrders(orders) == SelectSeq(orders, IsStopOrder)

PlainOrders(orders) == SelectSeq(orders, LAMBDA o : ~IsStopOrder(o))

\* C31: selective_refresh leaves every stop order resting, counts none of
\* them as kept or as cancelled, and matches no proposed signal against one:
\* the kept and cancelled orders are the other orders, and every signal but
\* one per kept order is handed to execute_orders.
C31_StopOrdersUntouched ==
    (sr_call.valid /\ "failing" \in DOMAIN sr_call)
       => /\ StopOrders(open_orders) = StopOrders(sr_call.pre)
          /\ sr_call.kept + sr_call.cancelled = Len(PlainOrders(sr_call.pre))
          /\ Len(sr_call.submitted) = Len(sr_call.signals) - sr_call.kept
          /\ PlainOrders(sr_call.pre) = <<>> => sr_call.submitted = sr_call.signals

\* A stop-limit BUY at 50000 rests beside a limit BUY at 50300; a GRID_BUY at
\* 50000 is proposed: it is placed, the limit order is cancelled and the stop
\* order stays.
C31_Witness ==
    /\ sr_call.valid
    /\ "failing" \in DOMAIN sr_call
    /\ sr_call.failing = {}
    /\ Len(sr_call.pre) = 2
    /\ sr_call.pre[1].raw_type = "STOP"
    /\ sr_call.pre[2].raw_type = "LIMIT"
    /\ sr_call.pre[2].price = 50300
    /\ Len(sr_call.signals) = 1
    /\ sr_call.signals[1].signal_type = "GRID_BUY"
    /\ sr_call.signals[1].price = 50000
    /\ sr_call.kept = 0
    /\ sr_call.cancelled = 1
    /\ sr_call.submitted = sr_call.signals
    /\ Len(open_orders) = 2
    /\ open_orders[1] = sr_call.pre[1]

\* The orders of a list at the positions in idx, in the order of the list.
RECURSIVE OrdersAt(_, _, _)
OrdersAt(orders, idx, i) ==
    IF i > Len(orders) THEN <<>>
    ELSE (IF i \in idx THEN <<orders[i]>> ELSE <<>>) \o OrdersAt(orders, idx, i + 1)

\* C32: when cancel_order raises for an unmatched order, every other
\* unmatched order is still cancelled, and the unmatched grid signals and the
\* DCA signals are still handed to execute_orders and placed in that call.
C32_CancelFailureIsolated ==
    (/\ sr_call.valid
     /\ "failing" \in DOMAIN sr_call
     /\ sr_call.to_cancel \cap sr_call.failing # {})
       => LET stay == OrdersAt(sr_call.pre,
                               { i \in 1..Len(sr_call.pre) :
                                   i \notin sr_call.to_cancel \/ i \in sr_call.failing },
                               1)
              new  == SelectSeq(sr_call.trades, LAMBDA t : t.status = "OPEN")
          IN  /\ Len(open_orders) = Len(stay) + Len(new)
              /\ SubSeq(open_orders, 1, Len(stay)) = stay
              /\ SelectSeq(sr_call.submitted,
                           LAMBDA x : x.signal_type \in {"DCA_BUY", "DCA_TAKE_PROFIT"})
                   = SelectSeq(sr_call.signals,
                               LAMBDA x : x.signal_type \in {"DCA_BUY", "DCA_TAKE_PROFIT"})
              /\ Len(sr_call.submitted) = Len(sr_call.signals) - sr_call.kept
              /\ Len(sr_call.trades) = Len(sr_call.submitted)

\* Two unmatched limit orders, the cancel of the first raising: the second is
\* cancelled, the first stays, and the proposed DCA_BUY and GRID_SELL are both
\* placed.
C32_Witness ==
    /\ sr_call.valid
    /\ "failing" \in DOMAIN sr_call
    /\ Len(sr_call.pre) = 2
    /\ sr_call.to_cancel = {1, 2}
    /\ sr_call.failing = {1}
    /\ Len(sr_call.signals) = 2
    /\ sr_call.signals[1].signal_type = "DCA_BUY"
    /\ sr_call.signals[2].signal_type = "GRID_SELL"
    /\ Len(sr_call.trades) = 2
    /\ Len(open_orders) = 2
    /\ open_orders[1] = sr_call.pre[1]
    /\ open_orders[2].side = "SELL"

-----------------------------------------------------------------------------
(* Properties of two schedulers on one database                            *)

TwoActiveRows ==
    \E i, j \in 1..Len(dca_state) :
       /\ i # j
       /\ dca_state[i].active
       /\ dca_state[j].active
       /\ dca_state[i].pair = dca_state[j].pair

C33_WitnessLostEntry ==
    /\ Len(dca_state) = 1
    /\ dca_state[1].entries = 2
    /\ \A p \in Schedulers :
          /\ schedulers[p].pc = "idle"
          /\ schedulers[p].calls = 1
          /\ ~schedulers[p].blind
          /\ schedulers[p].pre_id = 1
          /\ \E k \in 1..Len(schedulers[p].signals) :
                schedulers[p].signals[k].signal_type = "DCA_BUY"

-----------------------------------------------------------------------------
(* Properties of the scheduler's bookkeeping of resting orders             *)

\* C36: between cycles, the PENDING/OPEN count that the risk gate reads is
\* not smaller than the number of limit orders of the bot resting on the
\* exchange, so that the gate keeps that number within MAX_OPEN_ORDERS.
C36_PersistedCountCoversResting ==
    sched_pc = "idle"
       => /\ _get_open_order_count(TRUE) >= Len(open_orders)
          /\ Len(open_orders) <= MAX_OPEN_ORDERS

\* C39: when a cycle ends with the kill-switch flag set, no limit order of the
\* bot rests on the exchange for any active instrument (every fetch of the
\* open orders and every cancel having succeeded).
C39_KillLeavesNothingResting ==
    (sched_pc = "idle" /\ kill_switch_active) => open_orders = <<>>

\* C38: the dca_state table changes (a row created, an entry added, a row
\* deactivated by take-profit) only in a step of the cycle that completes
\* with the order it stands for among the approved signals and placed on the
\* exchange.
C38_DcaStateFollowsExchange ==
    [][ dca_state' # dca_state
          => /\ sched_step'.kind = "done"
             /\ sched_step'.approved >= 1
             /\ sched_step'.placed >= 1 ]_vars

-----------------------------------------------------------------------------
(* Properties of the scheduler's kill switch                               *)

\* C1: once a cycle has run with the drawdown at or over the kill-switch
\* threshold, no signal is approved in that cycle and no order is placed in
\* any later cycle, whatever the later balances, prices and regimes.
C1_KillSwitchPersists ==
    /\ (sched_pc = "loop" /\ check_kill_switch(current_balance)
           /\ sched_step.kind \in {"error", "kept", "done"})
          => sched_step.approved = 0
    /\ (drawdown_seen /\ sched_step.kind \in {"error", "kept", "done"})
          => sched_step.placed = 0

\* C2: once kill_switch_active is set no step of a cycle clears it, and a
\* run_trading_cycle invoked with the flag set returns having changed
\* nothing: no balance or daily-reset update, no signal generated or
\* validated, no order placed or cancelled, grid centers, last regimes and
\* DCA rows as they were.
C2_FlagLatched ==
    [][ /\ kill_switch_active => kill_switch_active'
        /\ (kill_switch_active /\ cycles' = cycles + 1)
              => /\ sched_pc' = "idle"
                 /\ UNCHANGED <<trades, dca_state, daily_reset_state, current_balance,
                                now, last_grid_center, last_regime, open_orders,
                                algo_stops, pending, drawdown_seen>> ]_vars

C2_Witness ==
    /\ kill_switch_active
    /\ sched_step.valid
    /\ sched_step.kind = "skipped"
    /\ open_orders # <<>>
    /\ sched_pc = "idle"

====
